---- MODULE Spec2Model ----
(***************************************************************************)
(* PicoClaw provider invocation layer: the cooldown tracker                *)
(* (pkg/providers, CooldownTracker), its backoff schedules, the error      *)
(* classifier and the fallback engine that drives them.                    *)
(*                                                                         *)
(* Time is counted in milliseconds, the unit in which the backoff          *)
(* functions compute.  The zero instant time.Time{} is 0; the clock reads  *)
(* StartTime or later.                                                     *)
(***************************************************************************)
EXTENDS Integers, Sequences, FiniteSets, TLC

VARIABLES
    entries,    \* CooldownTracker.entries : provider -> cooldownEntry (a Go map)
    now,        \* the instant CooldownTracker.nowFunc() returns
    last,       \* history: the tracker call made by the latest step
    scen,       \* history: per provider, how far its calls follow a scripted scenario
    streak,     \* history: per provider, billing failures in a row since a fresh entry
    arg,        \* backoff harness: the pair of counters handed to a schedule
    out,        \* backoff harness: which schedule ran and what it returned
    registry,   \* the providers an adapter is registered for
    pc,         \* per engine call: idle, next, inflight or done
    cands,      \* per engine call: the deduplicated candidate list
    idx,        \* per engine call: the position of the current candidate
    attempts,   \* per engine call: what became of each candidate so far
    result,     \* per engine call: what the call returned
    dropped,    \* per engine call: how many of the references given were duplicates
    mu,         \* CooldownTracker.mu (Manager.mu where the MCP manager is run): the
                \* writer holding it and the readers inside
    th,         \* per goroutine: the method it runs, its position and locals
    lin         \* history: the entries after the tracker calls so far, in lock order

trackerVars == <<entries, last, scen, streak>>
harnessVars == <<arg, out>>
engineVars == <<registry, pc, cands, idx, attempts, result, dropped>>
lockVars == <<mu, th, lin>>
vars == <<entries, now, last, scen, streak, arg, out,
          registry, pc, cands, idx, attempts, result, dropped, mu, th, lin>>

-----------------------------------------------------------------------------
(* Durations *)

Seconds(n) == n * 1000
Minutes(n) == Seconds(60 * n)
Hours(n) == Minutes(60 * n)

Min(a, b) == IF a < b THEN a ELSE b
Max(a, b) == IF a > b THEN a ELSE b

RECURSIVE Pow(_, _)
Pow(b, e) == IF e = 0 THEN 1 ELSE b * Pow(b, e - 1)

-----------------------------------------------------------------------------
(* Bounds of the model *)

\* MarkFailure is not called on a provider whose error count reached this.
MaxFailures == 5
\* With several providers: MarkFailure is not called once the providers' error
\* counts add up to this.
MaxTotalFailures == 3
\* The largest counter handed to a backoff schedule by the harness.
MaxArg == 12
\* An engine call is handed at most this many fallbacks.
MaxFallbacks == 2
\* Failures recorded by earlier requests before the engine call starts.
MaxPriorFailures == 1

\* Each of two concurrent engine calls is handed at most this many fallbacks.
MaxConcurrentFallbacks == 1

\* Tracker calls the goroutines make between them.
MaxThreadCalls == 3

Providers == {"openai", "anthropic"}

\* The reasons the tracker is fed: the classifier folds overloaded into
\* rate_limit, and format is never recorded.
FailoverRateLimit == "rate_limit"
FailoverBilling == "billing"
FailoverAuth == "auth"
FailoverTimeout == "timeout"
FailoverFormat == "format"
Reasons == {FailoverRateLimit, FailoverBilling, FailoverAuth, FailoverTimeout}

\* The instants the injected clock is moved to, as offsets from StartTime.
Offsets ==
    { 0, Seconds(60) - 1, Seconds(60), Seconds(61), Minutes(2),
      Seconds(61) + Minutes(4), Seconds(61) + Minutes(6),
      Hours(5), Hours(5) + Seconds(1),
      Hours(24), Hours(24) + 1, Hours(25) }

\* The fewer instants used when several providers are tracked at once.
CoarseOffsets == { 0, Seconds(61), Hours(5) + Seconds(1), Hours(24) + 1 }

\* The instants the clock is moved to while an engine call runs.
EngineOffsets == { 0, Seconds(61) }

-----------------------------------------------------------------------------
(* Go maps: a function whose domain is the set of keys present *)

EmptyMap == <<>>

MapGet(m, k, zero) == IF k \in DOMAIN m THEN m[k] ELSE zero

MapPut(m, k, v) == [x \in DOMAIN m \cup {k} |-> IF x = k THEN v ELSE m[x]]

RECURSIVE SumOver(_, _)
SumOver(m, keys) ==
    IF keys = {} THEN 0
    ELSE LET k == CHOOSE x \in keys : TRUE
         IN m[k] + SumOver(m, keys \ {k})

-----------------------------------------------------------------------------
(* The tracker *)

ZeroTime == 0
StartTime == 1
IsZero(t) == t = ZeroTime
Before(t, u) == t < u

\* A slip in the window: counters are dropped after one hour without failure,
\* while a disable may still run.
defaultFailureWindow_OneHour == Hours(1)

defaultFailureWindow == Hours(24)

\* A slip in the exponent: 5^min(n, 3), one step too far along the schedule.
calculateStandardCooldown_ExpOffByOne(errorCount) ==
    LET n == Max(1, errorCount)
        exp == Min(n, 3)
        ms == 60000 * Pow(5, exp)
    IN Min(3600000, ms)

\* A slip in the cap: the one-hour cap is left out.
calculateStandardCooldown_NoCap(errorCount) ==
    LET n == Max(1, errorCount)
        exp == Min(n - 1, 3)
    IN 60000 * Pow(5, exp)

\* calculateStandardCooldown: min(1h, 1min * 5^min(n-1, 3))
calculateStandardCooldown(errorCount) ==
    LET n == Max(1, errorCount)
        exp == Min(n - 1, 3)
        ms == 60000 * Pow(5, exp)
    IN Min(3600000, ms)

\* A slip in the cap: the exponent is capped at 3 and the 24 h cap is left out.
calculateBillingCooldown_ExpCapOnly(billingErrorCount) ==
    LET baseMs == 5 * 60 * 60 * 1000
        n == Max(1, billingErrorCount)
        exp == Min(n - 1, 3)
    IN baseMs * Pow(2, exp)

\* A slip in the exponent: 2^min(n, 10), one step too far along the schedule.
calculateBillingCooldown_ExpOffByOne(billingErrorCount) ==
    LET baseMs == 5 * 60 * 60 * 1000
        maxMs == 24 * 60 * 60 * 1000
        n == Max(1, billingErrorCount)
        exp == Min(n, 10)
        pw == Pow(2, exp)
    IN IF pw > maxMs \div baseMs THEN maxMs ELSE Min(maxMs, baseMs * pw)

\* calculateBillingCooldown: min(24h, 5h * 2^min(n-1, 10)).  The source takes
\* the minimum in float64; here the product is formed only where it is below
\* the cap, which is the same minimum without leaving TLC's integers.
calculateBillingCooldown(billingErrorCount) ==
    LET baseMs == 5 * 60 * 60 * 1000
        maxMs == 24 * 60 * 60 * 1000
        n == Max(1, billingErrorCount)
        exp == Min(n - 1, 10)
        pw == Pow(2, exp)
    IN IF pw > maxMs \div baseMs THEN maxMs ELSE Min(maxMs, baseMs * pw)

newEntry ==
    [ ErrorCount |-> 0, FailureCounts |-> EmptyMap,
      CooldownEnd |-> ZeroTime, DisabledUntil |-> ZeroTime,
      DisabledReason |-> "", LastFailure |-> ZeroTime ]

\* getOrCreate: the entries map with an entry for the provider in it.
getOrCreate(provider) ==
    IF provider \in DOMAIN entries THEN entries
    ELSE MapPut(entries, provider, newEntry)

\* A slip in the comparison: the window counts as expired at exactly 24 h.
windowExpired_Inclusive(entry) ==
    ~IsZero(entry.LastFailure) /\ now - entry.LastFailure >= defaultFailureWindow

\* The test that opens MarkFailure: the last failure is older than the window.
windowExpired(entry) ==
    ~IsZero(entry.LastFailure) /\ now - entry.LastFailure > defaultFailureWindow

\* A slip in the reset: the per-reason map is kept.
resetCounters_TotalOnly(entry) == [entry EXCEPT !.ErrorCount = 0]

\* The failure-window reset of MarkFailure.
resetCounters(entry) == [entry EXCEPT !.ErrorCount = 0, !.FailureCounts = EmptyMap]

\* A slip in the increments: the failure is counted twice in the total.
MarkFailure_CountsTwice(provider, reason) ==
    LET ents == getOrCreate(provider)
        entry == ents[provider]
        e1 == IF windowExpired(entry) THEN resetCounters(entry) ELSE entry
        e2 == [e1 EXCEPT !.ErrorCount = @ + 2,
                         !.FailureCounts = MapPut(@, reason, MapGet(@, reason, 0) + 1),
                         !.LastFailure = now]
        e3 == IF reason = FailoverBilling
              THEN [e2 EXCEPT
                      !.DisabledUntil =
                          now + calculateBillingCooldown(
                                    MapGet(e2.FailureCounts, FailoverBilling, 0)),
                      !.DisabledReason = FailoverBilling]
              ELSE [e2 EXCEPT
                      !.CooldownEnd = now + calculateStandardCooldown(e2.ErrorCount)]
    IN MapPut(ents, provider, e3)

\* A slip in the increments: the per-reason count is not raised.
MarkFailure_TotalOnly(provider, reason) ==
    LET ents == getOrCreate(provider)
        entry == ents[provider]
        e1 == IF windowExpired(entry) THEN resetCounters(entry) ELSE entry
        e2 == [e1 EXCEPT !.ErrorCount = @ + 1, !.LastFailure = now]
        e3 == IF reason = FailoverBilling
              THEN [e2 EXCEPT
                      !.DisabledUntil =
                          now + calculateBillingCooldown(
                                    MapGet(e2.FailureCounts, FailoverBilling, 0)),
                      !.DisabledReason = FailoverBilling]
              ELSE [e2 EXCEPT
                      !.CooldownEnd = now + calculateStandardCooldown(e2.ErrorCount)]
    IN MapPut(ents, provider, e3)

\* A slip in the bookkeeping: a failure of a provider that is already cooling
\* down is merged into the cooldown that runs.
MarkFailure_Merged(provider, reason) ==
    LET ents == getOrCreate(provider)
        entry == ents[provider]
        e1 == IF windowExpired(entry) THEN resetCounters(entry) ELSE entry
        e2 == [e1 EXCEPT !.ErrorCount = @ + 1,
                         !.FailureCounts = MapPut(@, reason, MapGet(@, reason, 0) + 1),
                         !.LastFailure = now]
        e3 == IF reason = FailoverBilling
              THEN [e2 EXCEPT
                      !.DisabledUntil =
                          now + calculateBillingCooldown(
                                    MapGet(e2.FailureCounts, FailoverBilling, 0)),
                      !.DisabledReason = FailoverBilling]
              ELSE [e2 EXCEPT
                      !.CooldownEnd = now + calculateStandardCooldown(e2.ErrorCount)]
    IN IF Before(now, entry.CooldownEnd) \/ Before(now, entry.DisabledUntil)
       THEN ents
       ELSE MapPut(ents, provider, e3)

\* A slip in the count: the standard cooldown follows the failures of the
\* reason at hand, not the failures of every reason.
MarkFailure_OwnReasonOnly(provider, reason) ==
    LET ents == getOrCreate(provider)
        entry == ents[provider]
        e1 == IF windowExpired(entry) THEN resetCounters(entry) ELSE entry
        e2 == [e1 EXCEPT !.ErrorCount = @ + 1,
                         !.FailureCounts = MapPut(@, reason, MapGet(@, reason, 0) + 1),
                         !.LastFailure = now]
        e3 == IF reason = FailoverBilling
              THEN [e2 EXCEPT
                      !.DisabledUntil =
                          now + calculateBillingCooldown(
                                    MapGet(e2.FailureCounts, FailoverBilling, 0)),
                      !.DisabledReason = FailoverBilling]
              ELSE [e2 EXCEPT
                      !.CooldownEnd =
                          now + calculateStandardCooldown(
                                    MapGet(e2.FailureCounts, reason, 0))]
    IN MapPut(ents, provider, e3)

\* A slip in the branches: a billing failure starts the standard cooldown too.
MarkFailure_BillingAlsoCools(provider, reason) ==
    LET ents == getOrCreate(provider)
        entry == ents[provider]
        e1 == IF windowExpired(entry) THEN resetCounters(entry) ELSE entry
        e2 == [e1 EXCEPT !.ErrorCount = @ + 1,
                         !.FailureCounts = MapPut(@, reason, MapGet(@, reason, 0) + 1),
                         !.LastFailure = now]
        e3 == IF reason = FailoverBilling
              THEN [e2 EXCEPT
                      !.DisabledUntil =
                          now + calculateBillingCooldown(
                                    MapGet(e2.FailureCounts, FailoverBilling, 0)),
                      !.DisabledReason = FailoverBilling,
                      !.CooldownEnd = now + calculateStandardCooldown(e2.ErrorCount)]
              ELSE [e2 EXCEPT
                      !.CooldownEnd = now + calculateStandardCooldown(e2.ErrorCount)]
    IN MapPut(ents, provider, e3)

\* MarkFailure: the entries map after the call.
MarkFailure(provider, reason) ==
    LET ents == getOrCreate(provider)
        entry == ents[provider]
        e1 == IF windowExpired(entry) THEN resetCounters(entry) ELSE entry
        e2 == [e1 EXCEPT !.ErrorCount = @ + 1,
                         !.FailureCounts = MapPut(@, reason, MapGet(@, reason, 0) + 1),
                         !.LastFailure = now]
        e3 == IF reason = FailoverBilling
              THEN [e2 EXCEPT
                      !.DisabledUntil =
                          now + calculateBillingCooldown(
                                    MapGet(e2.FailureCounts, FailoverBilling, 0)),
                      !.DisabledReason = FailoverBilling]
              ELSE [e2 EXCEPT
                      !.CooldownEnd = now + calculateStandardCooldown(e2.ErrorCount)]
    IN MapPut(ents, provider, e3)

\* A slip in the reset: the billing disable is left standing.
MarkSuccess_KeepDisabled(provider) ==
    IF provider \notin DOMAIN entries THEN entries
    ELSE [entries EXCEPT ![provider] =
            [@ EXCEPT !.ErrorCount = 0, !.FailureCounts = EmptyMap,
                      !.CooldownEnd = ZeroTime, !.DisabledReason = ""]]

\* A slip in the reset: the disable reason is left standing.
MarkSuccess_KeepReason(provider) ==
    IF provider \notin DOMAIN entries THEN entries
    ELSE [entries EXCEPT ![provider] =
            [@ EXCEPT !.ErrorCount = 0, !.FailureCounts = EmptyMap,
                      !.CooldownEnd = ZeroTime, !.DisabledUntil = ZeroTime]]

\* A slip in the lookup: the entry of every provider is reset.
MarkSuccess_AllProviders(provider) ==
    [q \in DOMAIN entries |->
        [entries[q] EXCEPT !.ErrorCount = 0, !.FailureCounts = EmptyMap,
                           !.CooldownEnd = ZeroTime, !.DisabledUntil = ZeroTime,
                           !.DisabledReason = ""]]

\* MarkSuccess: the entries map after the call.
MarkSuccess(provider) ==
    IF provider \notin DOMAIN entries THEN entries
    ELSE [entries EXCEPT ![provider] =
            [@ EXCEPT !.ErrorCount = 0, !.FailureCounts = EmptyMap,
                      !.CooldownEnd = ZeroTime, !.DisabledUntil = ZeroTime,
                      !.DisabledReason = ""]]

\* A slip in the comparison: still unavailable at the instant of expiry.
IsAvailable_AtExpiry(provider) ==
    IF provider \notin DOMAIN entries THEN TRUE
    ELSE LET entry == entries[provider]
         IN IF ~IsZero(entry.DisabledUntil) /\ now <= entry.DisabledUntil
            THEN FALSE
            ELSE IF ~IsZero(entry.CooldownEnd) /\ now <= entry.CooldownEnd
                 THEN FALSE
                 ELSE TRUE

\* A slip in the checks: neither expiry is looked at.
IsAvailable_Always(provider) == TRUE

\* A slip in the checks: the billing disable is not looked at.
IsAvailable_StandardOnly(provider) ==
    IF provider \notin DOMAIN entries THEN TRUE
    ELSE LET entry == entries[provider]
         IN IF ~IsZero(entry.CooldownEnd) /\ Before(now, entry.CooldownEnd)
            THEN FALSE
            ELSE TRUE

IsAvailable(provider) ==
    IF provider \notin DOMAIN entries THEN TRUE
    ELSE LET entry == entries[provider]
         IN IF ~IsZero(entry.DisabledUntil) /\ Before(now, entry.DisabledUntil)
            THEN FALSE
            ELSE IF ~IsZero(entry.CooldownEnd) /\ Before(now, entry.CooldownEnd)
                 THEN FALSE
                 ELSE TRUE

CooldownRemaining(provider) ==
    IF provider \notin DOMAIN entries THEN 0
    ELSE LET entry == entries[provider]
             r1 == IF ~IsZero(entry.DisabledUntil) /\ Before(now, entry.DisabledUntil)
                   THEN Max(0, entry.DisabledUntil - now)
                   ELSE 0
             r2 == IF ~IsZero(entry.CooldownEnd) /\ Before(now, entry.CooldownEnd)
                   THEN Max(r1, entry.CooldownEnd - now)
                   ELSE r1
         IN r2

ErrorCount(provider) ==
    IF provider \notin DOMAIN entries THEN 0 ELSE entries[provider].ErrorCount

FailureCount(provider, reason) ==
    IF provider \notin DOMAIN entries THEN 0
    ELSE MapGet(entries[provider].FailureCounts, reason, 0)

-----------------------------------------------------------------------------
(* The error classifier.  An error is a record: kind tells whether it is     *)
(* the context.Canceled or context.DeadlineExceeded sentinel itself, msg is  *)
(* the text of err.Error() as a sequence of words.  A pattern matches whole  *)
(* words: [a, b] matches when the words of a occur in a row and, further on, *)
(* the words of b (b empty for a plain substring).                           *)

Nil == [isNil |-> TRUE]

\* strings.ToLower, word by word, on the words the model's messages use.
LowerWord(w) ==
    CASE w = "API" -> "api"
      [] w = "Status:" -> "status:"
      [] w = "Body:" -> "body:"
      [] w = "HTTP/1.1" -> "http/1.1"
      [] w = "HTTP" -> "http"
      [] w = "A" -> "a"
      [] w = "Bad" -> "bad"
      [] w = "Gateway" -> "gateway"
      [] w = "Post" -> "post"
      [] w = "GPT-4" -> "gpt-4"
      [] w = "OpenAI" -> "openai"
      [] w = "Claude" -> "claude"
      [] OTHER -> w

ToLower(msg) == [i \in DOMAIN msg |-> LowerWord(msg[i])]

Sub(a) == [a |-> a, b |-> <<>>]
Gap(a, b) == [a |-> a, b |-> b]

OccursAt(msg, ws, i) ==
    /\ i + Len(ws) - 1 <= Len(msg)
    /\ \A k \in 1..Len(ws) : msg[i + k - 1] = ws[k]

Matches(msg, p) ==
    \E i \in 1..Len(msg) :
        /\ OccursAt(msg, p.a, i)
        /\ \/ p.b = <<>>
           \/ \E j \in (i + Len(p.a))..Len(msg) : OccursAt(msg, p.b, j)

rateLimitPatterns ==
    { Sub(<<"rate", "limit">>), Sub(<<"rate_limit">>),
      Sub(<<"too", "many", "requests">>),
      Sub(<<"429">>),
      Sub(<<"exceeded", "your", "current", "quota">>),
      Gap(<<"exceeded">>, <<"quota">>),
      Sub(<<"resource", "has", "been", "exhausted">>),
      Gap(<<"resource">>, <<"exhausted">>),
      Sub(<<"resource_exhausted">>),
      Sub(<<"quota", "exceeded">>),
      Sub(<<"usage", "limit">>) }

overloadedPatterns ==
    { Sub(<<"overloaded_error">>), Sub(<<"overloaded">>) }

timeoutPatterns ==
    { Sub(<<"timeout">>), Sub(<<"timed", "out">>),
      Sub(<<"deadline", "exceeded">>),
      Sub(<<"context", "deadline", "exceeded">>) }

billingPatterns ==
    { Sub(<<"402">>), Sub(<<"payment", "required">>),
      Sub(<<"insufficient", "credits">>), Sub(<<"credit", "balance">>),
      Sub(<<"plans", "&", "billing">>), Sub(<<"insufficient", "balance">>) }

authPatterns ==
    { Sub(<<"invalid", "api", "key">>), Sub(<<"invalid_api_key">>),
      Sub(<<"invalid", "api_key">>), Sub(<<"invalid_api", "key">>),
      Sub(<<"incorrect", "api", "key">>), Sub(<<"invalid", "token">>),
      Sub(<<"authentication">>), Sub(<<"re-authenticate">>),
      Sub(<<"oauth", "token", "refresh", "failed">>),
      Sub(<<"unauthorized">>), Sub(<<"forbidden">>),
      Sub(<<"access", "denied">>), Sub(<<"expired">>),
      Sub(<<"token", "has", "expired">>),
      Sub(<<"401">>), Sub(<<"403">>),
      Sub(<<"no", "credentials", "found">>),
      Sub(<<"no", "api", "key", "found">>) }

formatPatterns ==
    { Sub(<<"string", "should", "match", "pattern">>),
      Sub(<<"tool_use.id">>), Sub(<<"tool_use_id">>),
      Sub(<<"messages.1.content.1.tool_use.id">>),
      Sub(<<"invalid", "request", "format">>) }

imageDimensionPatterns == { Sub(<<"image", "dimensions", "exceed", "max">>) }

imageSizePatterns == { Gap(<<"image", "exceeds">>, <<"mb">>) }

\* A slip in the table of transient codes: 529 is left out.
transientStatusCodes_Without529 == {500, 502, 503, 521, 522, 523, 524}

transientStatusCodes == {500, 502, 503, 521, 522, 523, 524, 529}

matchesAny(msg, patterns) == \E p \in patterns : Matches(msg, p)

IsImageDimensionError(msg) == matchesAny(msg, imageDimensionPatterns)

IsImageSizeError(msg) == matchesAny(msg, imageSizePatterns)

\* The three-digit words of the model's messages, and parseDigits of each.
StatusWords ==
    {"400", "401", "402", "403", "408", "418", "429",
     "500", "502", "503", "521", "522", "523", "524", "529"}

parseDigits(w) ==
    CASE w = "400" -> 400 [] w = "401" -> 401 [] w = "402" -> 402
      [] w = "403" -> 403 [] w = "408" -> 408 [] w = "418" -> 418
      [] w = "429" -> 429 [] w = "500" -> 500 [] w = "502" -> 502
      [] w = "503" -> 503 [] w = "521" -> 521 [] w = "522" -> 522
      [] w = "523" -> 523 [] w = "524" -> 524 [] w = "529" -> 529
      [] OTHER -> 0

\* The words that \d*\.?\d* can span between "HTTP " and the blank before the
\* code: a version number or a run of digits.
VersionWords == {"1.1"} \cup StatusWords

\* extractHTTPStatus: the first pattern is status[:\s]+(\d{3}), the second
\* HTTP[/\s]+\d*\.?\d*\s+(\d{3}); both are case-sensitive, and each takes its
\* leftmost match.  With one blank between words the second pattern needs
\* "HTTP/1.1 <code>" or "HTTP <version> <code>": "HTTP <code>" alone leaves no
\* blank for the \s+ before the code.
extractHTTPStatus(msg) ==
    LET hits1 == { i \in 1..(Len(msg) - 1) :
                     msg[i] \in {"status", "status:"} /\ msg[i + 1] \in StatusWords }
        slash(i) == msg[i] = "HTTP/1.1" /\ msg[i + 1] \in StatusWords
        blank(i) == /\ msg[i] = "HTTP"
                    /\ i + 2 <= Len(msg)
                    /\ msg[i + 1] \in VersionWords
                    /\ msg[i + 2] \in StatusWords
        hits2 == { i \in 1..(Len(msg) - 1) : slash(i) \/ blank(i) }
        first(hits) == CHOOSE i \in hits : \A j \in hits : i <= j
    IN IF hits1 # {} THEN parseDigits(msg[first(hits1) + 1])
       ELSE IF hits2 # {}
       THEN IF slash(first(hits2)) THEN parseDigits(msg[first(hits2) + 1])
            ELSE parseDigits(msg[first(hits2) + 2])
       ELSE 0

\* A slip in the table: 400 is taken for a rate limit.
classifyByStatus_400RateLimit(status) ==
    IF status = 401 \/ status = 403 THEN FailoverAuth
    ELSE IF status = 402 THEN FailoverBilling
    ELSE IF status = 408 THEN FailoverTimeout
    ELSE IF status = 429 \/ status = 400 THEN FailoverRateLimit
    ELSE IF status \in transientStatusCodes THEN FailoverTimeout
    ELSE ""

classifyByStatus(status) ==
    IF status = 401 \/ status = 403 THEN FailoverAuth
    ELSE IF status = 402 THEN FailoverBilling
    ELSE IF status = 408 THEN FailoverTimeout
    ELSE IF status = 429 THEN FailoverRateLimit
    ELSE IF status = 400 THEN FailoverFormat
    ELSE IF status \in transientStatusCodes THEN FailoverTimeout
    ELSE ""

\* A slip in the order of the buckets: timeout is tried first.
classifyByMessage_TimeoutFirst(msg) ==
    IF matchesAny(msg, timeoutPatterns) THEN FailoverTimeout
    ELSE IF matchesAny(msg, rateLimitPatterns) THEN FailoverRateLimit
    ELSE IF matchesAny(msg, overloadedPatterns) THEN FailoverRateLimit
    ELSE IF matchesAny(msg, billingPatterns) THEN FailoverBilling
    ELSE IF matchesAny(msg, authPatterns) THEN FailoverAuth
    ELSE IF matchesAny(msg, formatPatterns) THEN FailoverFormat
    ELSE ""

classifyByMessage(msg) ==
    IF matchesAny(msg, rateLimitPatterns) THEN FailoverRateLimit
    ELSE IF matchesAny(msg, overloadedPatterns) THEN FailoverRateLimit
    ELSE IF matchesAny(msg, billingPatterns) THEN FailoverBilling
    ELSE IF matchesAny(msg, timeoutPatterns) THEN FailoverTimeout
    ELSE IF matchesAny(msg, authPatterns) THEN FailoverAuth
    ELSE IF matchesAny(msg, formatPatterns) THEN FailoverFormat
    ELSE ""

FailoverErrorOf(reason, provider, model, status, err) ==
    [Reason |-> reason, Provider |-> provider, Model |-> model,
     Status |-> status, Wrapped |-> err]

\* A slip in the sentinels: the cancellation is treated like the deadline.
ClassifyError_CanceledTimeout(err, provider, model) ==
    IF err.kind = "nil" THEN Nil
    ELSE IF err.kind \in {"canceled", "deadline"}
    THEN FailoverErrorOf(FailoverTimeout, provider, model, 0, err)
    ELSE LET msg == ToLower(err.msg)
             status == extractHTTPStatus(msg)
         IN IF IsImageDimensionError(msg) \/ IsImageSizeError(msg)
            THEN FailoverErrorOf(FailoverFormat, provider, model, 0, err)
            ELSE IF status > 0 /\ classifyByStatus(status) # ""
            THEN FailoverErrorOf(classifyByStatus(status), provider, model, status, err)
            ELSE IF classifyByMessage(msg) # ""
            THEN FailoverErrorOf(classifyByMessage(msg), provider, model, 0, err)
            ELSE Nil

\* A slip in the sentinels: the deadline is treated like the cancellation.
ClassifyError_DeadlineNil(err, provider, model) ==
    IF err.kind \in {"nil", "canceled", "deadline"} THEN Nil
    ELSE LET msg == ToLower(err.msg)
             status == extractHTTPStatus(msg)
         IN IF IsImageDimensionError(msg) \/ IsImageSizeError(msg)
            THEN FailoverErrorOf(FailoverFormat, provider, model, 0, err)
            ELSE IF status > 0 /\ classifyByStatus(status) # ""
            THEN FailoverErrorOf(classifyByStatus(status), provider, model, status, err)
            ELSE IF classifyByMessage(msg) # ""
            THEN FailoverErrorOf(classifyByMessage(msg), provider, model, 0, err)
            ELSE Nil

\* A slip in the sentinels: the deadline is reported as a rate limit.
ClassifyError_DeadlineRateLimit(err, provider, model) ==
    IF err.kind = "nil" THEN Nil
    ELSE IF err.kind = "canceled" THEN Nil
    ELSE IF err.kind = "deadline"
    THEN FailoverErrorOf(FailoverRateLimit, provider, model, 0, err)
    ELSE LET msg == ToLower(err.msg)
             status == extractHTTPStatus(msg)
         IN IF IsImageDimensionError(msg) \/ IsImageSizeError(msg)
            THEN FailoverErrorOf(FailoverFormat, provider, model, 0, err)
            ELSE IF status > 0 /\ classifyByStatus(status) # ""
            THEN FailoverErrorOf(classifyByStatus(status), provider, model, status, err)
            ELSE IF classifyByMessage(msg) # ""
            THEN FailoverErrorOf(classifyByMessage(msg), provider, model, 0, err)
            ELSE Nil

ClassifyError(err, provider, model) ==
    IF err.kind = "nil" THEN Nil
    ELSE IF err.kind = "canceled" THEN Nil
    ELSE IF err.kind = "deadline"
    THEN FailoverErrorOf(FailoverTimeout, provider, model, 0, err)
    ELSE LET msg == ToLower(err.msg)
             status == extractHTTPStatus(msg)
         IN IF IsImageDimensionError(msg) \/ IsImageSizeError(msg)
            THEN FailoverErrorOf(FailoverFormat, provider, model, 0, err)
            ELSE IF status > 0 /\ classifyByStatus(status) # ""
            THEN FailoverErrorOf(classifyByStatus(status), provider, model, status, err)
            ELSE IF classifyByMessage(msg) # ""
            THEN FailoverErrorOf(classifyByMessage(msg), provider, model, 0, err)
            ELSE Nil

-----------------------------------------------------------------------------
(* Model references *)

\* NormalizeProvider: lower-cased and mapped through the aliases.  The names of
\* the model carry no surrounding blanks, so TrimSpace has nothing to cut.
NormalizeProvider(provider) ==
    LET p == LowerWord(provider)
    IN CASE p = "z.ai" -> "zai"
         [] p = "z-ai" -> "zai"
         [] p = "opencode-zen" -> "opencode"
         [] p = "qwen" -> "qwen-portal"
         [] p = "kimi-code" -> "kimi-coding"
         [] p = "gpt" -> "openai"
         [] p = "claude" -> "anthropic"
         [] p = "glm" -> "zhipu"
         [] p = "google" -> "gemini"
         [] OTHER -> p

\* A slip in the key: the model half keeps its letter case.
ModelKey_CaseSensitive(provider, model) == <<NormalizeProvider(provider), model>>

\* ModelKey: the key "provider/model", here the pair of its two halves.
ModelKey(provider, model) == <<NormalizeProvider(provider), LowerWord(model)>>

\* A model reference as it is written: a text, a sequence of pieces, each a
\* blank " ", a slash "/" or a name.  No name is made of other pieces, so two different
\* sequences are two different texts.
\* strings.TrimSpace: the white space at both ends is cut.
WhiteSpace == {" ", "\t", "\n", "\r"}

RECURSIVE TrimLeft(_)
TrimLeft(s) ==
    IF s # <<>> /\ Head(s) \in WhiteSpace THEN TrimLeft(Tail(s)) ELSE s

RECURSIVE TrimRight(_)
TrimRight(s) ==
    IF s # <<>> /\ s[Len(s)] \in WhiteSpace
    THEN TrimRight(SubSeq(s, 1, Len(s) - 1)) ELSE s

TrimSpace(s) == TrimRight(TrimLeft(s))

\* strings.Index(s, "/"), counted from 1; 0 when there is no slash.  The
\* source's test idx > 0 is Index(s) > 1 here.
Index(s) ==
    IF \E i \in 1..Len(s) : s[i] = "/"
    THEN CHOOSE i \in 1..Len(s) : s[i] = "/" /\ \A j \in 1..(i - 1) : s[j] # "/"
    ELSE 0

\* NormalizeProvider of a text: trimmed and lower-cased; an alias is a single
\* name, so only a text of one piece can be one.
NormalizeProviderOf(s) ==
    LET t == TrimSpace(s)
    IN IF Len(t) = 1 THEN <<NormalizeProvider(t[1])>> ELSE ToLower(t)

ModelRefOf(provider, model) == [Provider |-> provider, Model |-> model]

\* A slip in the resolver: the model half is lower-cased.
ParseModelRef_LowerModel(raw, defaultProvider) ==
    LET r == TrimSpace(raw)
        at == Index(r)
    IN IF r = <<>> THEN Nil
       ELSE IF at > 1
       THEN LET provider == NormalizeProviderOf(SubSeq(r, 1, at - 1))
                model == TrimSpace(SubSeq(r, at + 1, Len(r)))
            IN IF model = <<>> THEN Nil ELSE ModelRefOf(provider, ToLower(model))
       ELSE ModelRefOf(NormalizeProviderOf(defaultProvider), ToLower(r))

ParseModelRef(raw, defaultProvider) ==
    LET r == TrimSpace(raw)
        at == Index(r)
    IN IF r = <<>> THEN Nil
       ELSE IF at > 1
       THEN LET provider == NormalizeProviderOf(SubSeq(r, 1, at - 1))
                model == TrimSpace(SubSeq(r, at + 1, Len(r)))
            IN IF model = <<>> THEN Nil ELSE ModelRefOf(provider, model)
       ELSE ModelRefOf(NormalizeProviderOf(defaultProvider), r)

-----------------------------------------------------------------------------
(* History kept beside the tracker, for stating the claims *)

NoCall == [op |-> "none"]

\* The scripted scenarios: "rl0" is one rate_limit failure at StartTime on a
\* fresh provider, "rl0_rl61" a second one 61 s later, "rl0_bill0" a billing
\* failure right after the first; "off" is any other history.
ScenAfterFailure(provider, reason) ==
    LET s == scen[provider]
    IN IF s = "fresh" /\ reason = FailoverRateLimit /\ now = StartTime
       THEN "rl0"
       ELSE IF s = "rl0" /\ reason = FailoverRateLimit /\ now = StartTime + Seconds(61)
       THEN "rl0_rl61"
       ELSE IF s = "rl0" /\ reason = FailoverBilling /\ now = StartTime
       THEN "rl0_bill0"
       ELSE "off"

\* Billing failures in a row, each within the failure window of the one
\* before, counted from a fresh or success-reset entry; -1 once another
\* reason or a gap longer than the window broke the row.
StreakAfterFailure(provider, reason) ==
    LET k == streak[provider]
        gap == IF provider \in DOMAIN entries /\ k > 0
               THEN now - entries[provider].LastFailure
               ELSE 0
    IN IF reason = FailoverBilling /\ k >= 0 /\ gap <= Hours(24)
       THEN k + 1
       ELSE -1

-----------------------------------------------------------------------------
(* Tracker specifications: calls on the tracker and moves of the clock *)

Calls == {"c1", "c2"}

EngineIdle ==
    /\ pc = [c \in Calls |-> "idle"]
    /\ cands = [c \in Calls |-> <<>>]
    /\ idx = [c \in Calls |-> 0]
    /\ attempts = [c \in Calls |-> <<>>]
    /\ result = [c \in Calls |-> [kind |-> "none"]]
    /\ dropped = [c \in Calls |-> 0]

\* No goroutine is inside the tracker and the mutex is free.
Threads == {"t1", "t2"}

NoThread == "none"

IdleThread == [pc |-> "idle", op |-> "none", reason |-> "", now |-> ZeroTime,
               found |-> FALSE, ret |-> <<>>, want |-> <<>>, calls |-> 0]

ThreadsIdle ==
    /\ mu = [writer |-> NoThread, readers |-> {}]
    /\ th = [t \in Threads |-> IdleThread]
    /\ lin = EmptyMap

TrackerInit ==
    /\ entries = EmptyMap
    /\ now = StartTime
    /\ last = NoCall
    /\ scen = [p \in Providers |-> "fresh"]
    /\ streak = [p \in Providers |-> 0]
    /\ arg = <<0, 0>>
    /\ out = [fn |-> "none"]
    /\ registry = Providers
    /\ EngineIdle
    /\ ThreadsIdle

\* What a step that calls MarkFailure(p, r) does to the tracker.
DoMarkFailure(p, r) ==
    /\ entries' = MarkFailure(p, r)
    /\ last' = [op |-> "MarkFailure", provider |-> p, reason |-> r,
                had |-> p \in DOMAIN entries, pre |-> getOrCreate(p)[p]]
    /\ scen' = [scen EXCEPT ![p] = ScenAfterFailure(p, r)]
    /\ streak' = [streak EXCEPT ![p] = StreakAfterFailure(p, r)]

\* What a step that calls MarkSuccess(p) does to the tracker.
DoMarkSuccess(p) ==
    /\ entries' = MarkSuccess(p)
    /\ last' = [op |-> "MarkSuccess", provider |-> p, reason |-> "",
                had |-> p \in DOMAIN entries, pre |-> getOrCreate(p)[p]]
    /\ scen' = [scen EXCEPT ![p] = "off"]
    /\ streak' = [streak EXCEPT ![p] = 0]

\* What a step that calls neither does to it.
NoTrackerCall ==
    /\ last' = NoCall
    /\ UNCHANGED <<entries, scen, streak>>

CallMarkFailure(p, r) ==
    /\ DoMarkFailure(p, r)
    /\ UNCHANGED <<now, harnessVars, engineVars, lockVars>>

CallMarkSuccess(p) ==
    /\ DoMarkSuccess(p)
    /\ UNCHANGED <<now, harnessVars, engineVars, lockVars>>

AdvanceClock(t) ==
    /\ t > now
    /\ now' = t
    /\ NoTrackerCall
    /\ UNCHANGED <<harnessVars, engineVars, lockVars>>

TotalErrors == SumOver([p \in Providers |-> ErrorCount(p)], Providers)

\* One provider, the clock moved over the fine set of instants.
TrackerNext ==
    \/ \E r \in Reasons :
          ErrorCount("openai") < MaxFailures /\ CallMarkFailure("openai", r)
    \/ CallMarkSuccess("openai")
    \/ \E d \in Offsets : AdvanceClock(StartTime + d)

Spec == TrackerInit /\ [][TrackerNext]_vars

\* Every provider, the clock moved over the coarse set of instants.
ProvidersNext ==
    \/ \E p \in Providers, r \in Reasons :
          TotalErrors < MaxTotalFailures /\ CallMarkFailure(p, r)
    \/ \E p \in Providers : CallMarkSuccess(p)
    \/ \E d \in CoarseOffsets : AdvanceClock(StartTime + d)

SpecProviders == TrackerInit /\ [][ProvidersNext]_vars

-----------------------------------------------------------------------------
(* The fallback engine: Chat(ctx, req, primary, fallbacks).  One call walks  *)
(* its candidates in order; the adapter call is the one point where it       *)
(* blocks, so a call is "inflight" between invoking and the adapter's return. *)

\* The model references handed to the engine: a provider may be named by an
\* alias and a model in any letter case.
Refs ==
    { [provider |-> "openai", model |-> "gpt-4"],
      [provider |-> "gpt", model |-> "GPT-4"],
      [provider |-> "openai", model |-> "gpt-4o"],
      [provider |-> "anthropic", model |-> "claude-3-opus"] }

RECURSIVE SeqsUpTo(_, _)
SeqsUpTo(S, n) ==
    IF n = 0 THEN {<<>>}
    ELSE LET shorter == SeqsUpTo(S, n - 1)
         IN shorter \cup { Append(q, x) : q \in shorter, x \in S }

\* The errors an adapter returns.
ErrCanceled == [kind |-> "canceled", msg |-> <<"context", "canceled">>]
ErrDeadline == [kind |-> "deadline", msg |-> <<"context", "deadline", "exceeded">>]
ErrStatus(code) ==
    [kind |-> "other",
     msg |-> <<"API", "request", "failed:", "Status:", code, "Body:", "{}">>]
ErrText(words) == [kind |-> "other", msg |-> words]
\* What the HTTP adapter makes of an error of its client: the error wrapped
\* behind a prefix, no longer the sentinel itself.
ErrWrapped(err) ==
    [kind |-> "other", msg |-> <<"failed", "to", "send", "request:", "Post">> \o err.msg]

AdapterErrors ==
    { ErrCanceled, ErrDeadline,
      ErrStatus("429"), ErrStatus("402"), ErrStatus("401"), ErrStatus("400"),
      ErrText(<<"string", "should", "match", "pattern">>),
      ErrText(<<"image", "dimensions", "exceed", "max">>),
      ErrText(<<"some", "completely", "random", "error">>),
      ErrText(<<"overloaded">>),
      ErrWrapped(ErrCanceled) }

\* Candidates: primary then fallbacks, the first of each model key kept, each
\* under the canonical name of its provider.
RECURSIVE Dedupe(_, _)
Dedupe(refs, seen) ==
    IF refs = <<>> THEN <<>>
    ELSE LET r == Head(refs)
             k == ModelKey(r.provider, r.model)
         IN IF k \in seen THEN Dedupe(Tail(refs), seen)
            ELSE <<[provider |-> NormalizeProvider(r.provider), model |-> r.model]>>
                 \o Dedupe(Tail(refs), seen \cup {k})

Candidate(c) == cands[c][idx[c]]

Attempt(c, outcome, reason, err) ==
    [ref |-> Candidate(c), outcome |-> outcome, reason |-> reason, err |-> err,
     remaining |-> CooldownRemaining(Candidate(c).provider)]

NoErr == [kind |-> "nil", msg |-> <<>>]

StartCall(c, primary, fallbacks) ==
    /\ pc[c] = "idle"
    /\ pc' = [pc EXCEPT ![c] = "next"]
    /\ cands' = [cands EXCEPT ![c] = Dedupe(<<primary>> \o fallbacks, {})]
    /\ idx' = [idx EXCEPT ![c] = 1]
    /\ attempts' = [attempts EXCEPT ![c] = <<>>]
    /\ dropped' = [dropped EXCEPT
                     ![c] = 1 + Len(fallbacks) - Len(Dedupe(<<primary>> \o fallbacks, {}))]
    /\ NoTrackerCall
    /\ UNCHANGED <<now, harnessVars, lockVars, registry, result>>

\* A slip in the loop: the engine stays on a cooling candidate until it is
\* available again.
Skip_Wait(c) ==
    /\ pc[c] = "next"
    /\ idx[c] <= Len(cands[c])
    /\ ~IsAvailable(Candidate(c).provider)
    /\ UNCHANGED vars

\* The candidate's provider is cooling down or disabled: skipped, recorded.
Skip(c) ==
    /\ pc[c] = "next"
    /\ idx[c] <= Len(cands[c])
    /\ ~IsAvailable(Candidate(c).provider)
    /\ attempts' = [attempts EXCEPT ![c] = Append(@, Attempt(c, "skipped", "", NoErr))]
    /\ idx' = [idx EXCEPT ![c] = @ + 1]
    /\ NoTrackerCall
    /\ UNCHANGED <<now, harnessVars, lockVars, registry, dropped, pc, cands, result>>

\* No adapter is registered for the provider: an auth failure, and on.
NoAdapter(c) ==
    /\ pc[c] = "next"
    /\ idx[c] <= Len(cands[c])
    /\ IsAvailable(Candidate(c).provider)
    /\ Candidate(c).provider \notin registry
    /\ DoMarkFailure(Candidate(c).provider, FailoverAuth)
    /\ attempts' = [attempts EXCEPT
                      ![c] = Append(@, Attempt(c, "failed", FailoverAuth, NoErr))]
    /\ idx' = [idx EXCEPT ![c] = @ + 1]
    /\ UNCHANGED <<now, harnessVars, lockVars, registry, dropped, pc, cands, result>>

\* The adapter is invoked with the request, the model id and the options.
Invoke(c) ==
    /\ pc[c] = "next"
    /\ idx[c] <= Len(cands[c])
    /\ IsAvailable(Candidate(c).provider)
    /\ Candidate(c).provider \in registry
    /\ pc' = [pc EXCEPT ![c] = "inflight"]
    /\ NoTrackerCall
    /\ UNCHANGED <<now, harnessVars, lockVars, registry, dropped, cands, idx, attempts, result>>

\* The adapter returned a response.
ReturnSuccess(c) ==
    /\ pc[c] = "inflight"
    /\ DoMarkSuccess(Candidate(c).provider)
    /\ attempts' = [attempts EXCEPT ![c] = Append(@, Attempt(c, "ok", "", NoErr))]
    /\ result' = [result EXCEPT ![c] = [kind |-> "response", ref |-> Candidate(c)]]
    /\ pc' = [pc EXCEPT ![c] = "done"]
    /\ UNCHANGED <<now, harnessVars, lockVars, registry, dropped, cands, idx>>

\* The adapter returned an error: classified, then surfaced or recorded.
ReturnError(c, err) ==
    /\ pc[c] = "inflight"
    /\ LET ref == Candidate(c)
           fe == ClassifyError(err, ref.provider, ref.model)
       IN IF fe = Nil \/ fe.Reason = FailoverFormat
          THEN /\ attempts' = [attempts EXCEPT
                                 ![c] = Append(@, Attempt(c, "surfaced",
                                                  IF fe = Nil THEN "" ELSE fe.Reason, err))]
               /\ result' = [result EXCEPT ![c] = [kind |-> "error", err |-> err]]
               /\ pc' = [pc EXCEPT ![c] = "done"]
               /\ NoTrackerCall
               /\ UNCHANGED idx
          ELSE /\ DoMarkFailure(ref.provider, fe.Reason)
               /\ attempts' = [attempts EXCEPT
                                 ![c] = Append(@, Attempt(c, "failed", fe.Reason, err))]
               /\ idx' = [idx EXCEPT ![c] = @ + 1]
               /\ pc' = [pc EXCEPT ![c] = "next"]
               /\ UNCHANGED result
    /\ UNCHANGED <<now, harnessVars, lockVars, registry, dropped, cands>>

\* No candidate is left: the compound error listing every attempt.
Exhausted(c) ==
    /\ pc[c] = "next"
    /\ idx[c] > Len(cands[c])
    /\ result' = [result EXCEPT ![c] = [kind |-> "exhausted", attempts |-> attempts[c]]]
    /\ pc' = [pc EXCEPT ![c] = "done"]
    /\ NoTrackerCall
    /\ UNCHANGED <<now, harnessVars, lockVars, registry, dropped, cands, idx, attempts>>

EngineInit ==
    /\ entries = EmptyMap
    /\ now = StartTime
    /\ last = NoCall
    /\ scen = [p \in Providers |-> "fresh"]
    /\ streak = [p \in Providers |-> 0]
    /\ arg = <<0, 0>>
    /\ out = [fn |-> "none"]
    /\ registry \in {Providers, {"openai"}, {"anthropic"}}
    /\ EngineIdle
    /\ ThreadsIdle

\* One engine call.  Before it starts, failures of earlier requests may have
\* been recorded.  Time passes before the call and while an adapter runs; the
\* engine's own steps follow each other at once.
EngineNext ==
    \/ /\ pc["c1"] = "idle"
       /\ TotalErrors < MaxPriorFailures
       /\ \E p \in Providers, r \in {FailoverRateLimit, FailoverBilling} :
             CallMarkFailure(p, r)
    \/ /\ pc["c1"] \in {"idle", "inflight"}
       /\ \E d \in EngineOffsets : AdvanceClock(StartTime + d)
    \/ /\ pc["c1"] = "idle"
       /\ \E primary \in Refs, fallbacks \in SeqsUpTo(Refs, MaxFallbacks) :
             StartCall("c1", primary, fallbacks)
    \/ Skip("c1")
    \/ NoAdapter("c1")
    \/ Invoke("c1")
    \/ ReturnSuccess("c1")
    \/ /\ pc["c1"] = "inflight"
       /\ \E err \in AdapterErrors : ReturnError("c1", err)
    \/ Exhausted("c1")

SpecEngine == EngineInit /\ [][EngineNext]_vars

\* The steps of one call.  The engine runs on when it can, and an adapter
\* that was invoked returns: both are weakly fair.
EngineStep(c) ==
    \/ Skip(c)
    \/ NoAdapter(c)
    \/ Invoke(c)
    \/ ReturnSuccess(c)
    \/ \E err \in AdapterErrors : ReturnError(c, err)
    \/ Exhausted(c)

SpecEngineLive == EngineInit /\ [][EngineNext]_vars /\ WF_vars(EngineStep("c1"))

\* Two engine calls at once, one per inbound request, on a fresh tracker.
ConcurrentErrors == { ErrStatus("429"), ErrStatus("402"), ErrDeadline, ErrCanceled }

ConcurrentOffsets == { 0, Seconds(1) }

ConcurrentRefs ==
    { [provider |-> "openai", model |-> "gpt-4"],
      [provider |-> "anthropic", model |-> "claude-3-opus"] }

ConcurrentNext ==
    \/ \E c \in Calls :
          /\ pc[c] = "idle"
          /\ \E primary \in ConcurrentRefs,
                fallbacks \in SeqsUpTo(ConcurrentRefs, MaxConcurrentFallbacks) :
                StartCall(c, primary, fallbacks)
    \/ \E c \in Calls : Skip(c)
    \/ \E c \in Calls : NoAdapter(c)
    \/ \E c \in Calls : Invoke(c)
    \/ \E c \in Calls : ReturnSuccess(c)
    \/ \E c \in Calls :
          /\ pc[c] = "inflight"
          /\ \E err \in ConcurrentErrors : ReturnError(c, err)
    \/ \E c \in Calls : Exhausted(c)
    \/ \E d \in ConcurrentOffsets : AdvanceClock(StartTime + d)

SpecConcurrent == EngineInit /\ [][ConcurrentNext]_vars

-----------------------------------------------------------------------------
(* The tracker's methods statement by statement, run by goroutines that      *)
(* share the tracker.  A goroutine takes ct.mu, works on the shared entry    *)
(* one statement at a time, and releases ct.mu on return.                    *)

\* The provider the goroutines call the tracker for.
Shared == "openai"

ThreadOps ==
    {"MarkFailure", "MarkSuccess", "IsAvailable", "CooldownRemaining",
     "ErrorCount", "FailureCount"}

WriterOps == {"MarkFailure", "MarkSuccess"}

ThreadReasons == {FailoverRateLimit, FailoverBilling}

ThreadOffsets == { 0, Seconds(61), Hours(24) + 1 }

CallsMade == SumOver([t \in Threads |-> th[t].calls], Threads)

\* sync.RWMutex: Lock waits until no writer and no reader is inside.
CanLock_IgnoresReaders == mu.writer = NoThread

CanLock == mu.writer = NoThread /\ mu.readers = {}

\* sync.RWMutex: RLock waits until no writer is inside.
CanRLock == mu.writer = NoThread

Goto(t, label) == th' = [th EXCEPT ![t].pc = label]

SetField(f, v) == entries' = [entries EXCEPT ![Shared][f] = v]

ThreadFrame == UNCHANGED <<now, last, scen, streak, harnessVars, engineVars>>

\* A goroutine calls a method of the tracker.
Begin(t, op, reason) ==
    /\ th[t].pc = "idle"
    /\ CallsMade < MaxThreadCalls
    /\ th' = [th EXCEPT ![t] = [IdleThread EXCEPT
                                  !.pc = IF op \in WriterOps THEN "lock" ELSE "rlock",
                                  !.op = op, !.reason = reason,
                                  !.calls = th[t].calls + 1]]
    /\ UNCHANGED <<entries, mu, lin>>
    /\ ThreadFrame

Lock(t) ==
    /\ th[t].pc = "lock"
    /\ CanLock
    /\ mu' = [mu EXCEPT !.writer = t]
    /\ Goto(t, IF th[t].op = "MarkFailure" THEN "mf_now" ELSE "ms_get")
    /\ UNCHANGED <<entries, lin>>
    /\ ThreadFrame

Unlock(t) ==
    /\ th[t].pc = "unlock"
    /\ mu' = [mu EXCEPT !.writer = NoThread]
    /\ th' = [th EXCEPT ![t] = [IdleThread EXCEPT !.calls = th[t].calls]]
    /\ UNCHANGED <<entries, lin>>
    /\ ThreadFrame

RLock(t) ==
    /\ th[t].pc = "rlock"
    /\ CanRLock
    /\ mu' = [mu EXCEPT !.readers = @ \cup {t}]
    /\ Goto(t, CASE th[t].op = "IsAvailable" -> "ia_get"
                 [] th[t].op = "CooldownRemaining" -> "cr_get"
                 [] th[t].op = "ErrorCount" -> "ec_get"
                 [] OTHER -> "fc_get")
    /\ UNCHANGED <<entries, lin>>
    /\ ThreadFrame

RUnlock(t) ==
    /\ th[t].pc = "runlock"
    /\ mu' = [mu EXCEPT !.readers = @ \ {t}]
    /\ th' = [th EXCEPT ![t] = [IdleThread EXCEPT !.calls = th[t].calls]]
    /\ UNCHANGED <<entries, lin>>
    /\ ThreadFrame

\* MarkFailure: now := ct.nowFunc().  From here on the call is decided: want
\* is the entries map the whole call leaves when nothing interferes.
MFNow(t) ==
    /\ th[t].pc = "mf_now"
    /\ th' = [th EXCEPT ![t].pc = "mf_get", ![t].now = now,
                        ![t].want = MarkFailure(Shared, th[t].reason)]
    /\ lin' = MarkFailure(Shared, th[t].reason)
    /\ UNCHANGED <<entries, mu>>
    /\ ThreadFrame

\* entry := ct.getOrCreate(provider)
MFGet(t) ==
    /\ th[t].pc = "mf_get"
    /\ entries' = getOrCreate(Shared)
    /\ Goto(t, "mf_window")
    /\ UNCHANGED <<mu, lin>>
    /\ ThreadFrame

\* The window test with the instant the call read.
windowExpiredAt(entry, t0) ==
    ~IsZero(entry.LastFailure) /\ t0 - entry.LastFailure > defaultFailureWindow

\* if ... > ct.failureWindow { entry.ErrorCount = 0
MFWindow(t) ==
    /\ th[t].pc = "mf_window"
    /\ IF windowExpiredAt(entries[Shared], th[t].now)
       THEN SetField("ErrorCount", 0) /\ Goto(t, "mf_reset")
       ELSE UNCHANGED entries /\ Goto(t, "mf_count")
    /\ UNCHANGED <<mu, lin>>
    /\ ThreadFrame

\* entry.FailureCounts = make(map[FailoverReason]int) }
MFReset(t) ==
    /\ th[t].pc = "mf_reset"
    /\ SetField("FailureCounts", EmptyMap)
    /\ Goto(t, "mf_count")
    /\ UNCHANGED <<mu, lin>>
    /\ ThreadFrame

\* entry.ErrorCount++
MFCount(t) ==
    /\ th[t].pc = "mf_count"
    /\ SetField("ErrorCount", entries[Shared].ErrorCount + 1)
    /\ Goto(t, "mf_reason")
    /\ UNCHANGED <<mu, lin>>
    /\ ThreadFrame

\* entry.FailureCounts[reason]++
MFReason(t) ==
    /\ th[t].pc = "mf_reason"
    /\ SetField("FailureCounts",
                MapPut(entries[Shared].FailureCounts, th[t].reason,
                       MapGet(entries[Shared].FailureCounts, th[t].reason, 0) + 1))
    /\ Goto(t, "mf_last")
    /\ UNCHANGED <<mu, lin>>
    /\ ThreadFrame

\* entry.LastFailure = now
MFLast(t) ==
    /\ th[t].pc = "mf_last"
    /\ SetField("LastFailure", th[t].now)
    /\ Goto(t, "mf_cool")
    /\ UNCHANGED <<mu, lin>>
    /\ ThreadFrame

\* if reason == FailoverBilling { entry.DisabledUntil = ... } else
\* { entry.CooldownEnd = ... }
MFCool(t) ==
    /\ th[t].pc = "mf_cool"
    /\ IF th[t].reason = FailoverBilling
       THEN /\ SetField("DisabledUntil",
                        th[t].now + calculateBillingCooldown(
                            MapGet(entries[Shared].FailureCounts, FailoverBilling, 0)))
            /\ Goto(t, "mf_disabled")
       ELSE /\ SetField("CooldownEnd",
                        th[t].now + calculateStandardCooldown(entries[Shared].ErrorCount))
            /\ Goto(t, "unlock")
    /\ UNCHANGED <<mu, lin>>
    /\ ThreadFrame

\* entry.DisabledReason = FailoverBilling
MFDisabled(t) ==
    /\ th[t].pc = "mf_disabled"
    /\ SetField("DisabledReason", FailoverBilling)
    /\ Goto(t, "unlock")
    /\ UNCHANGED <<mu, lin>>
    /\ ThreadFrame

\* MarkSuccess: entry := ct.entries[provider]; if entry == nil { return }
MSGet(t) ==
    /\ th[t].pc = "ms_get"
    /\ th' = [th EXCEPT ![t].pc = IF Shared \in DOMAIN entries THEN "ms_count"
                                  ELSE "unlock",
                        ![t].found = Shared \in DOMAIN entries,
                        ![t].want = MarkSuccess(Shared)]
    /\ lin' = MarkSuccess(Shared)
    /\ UNCHANGED <<entries, mu>>
    /\ ThreadFrame

\* The five assignments of MarkSuccess, one statement each.
MSAssign(t, label, f, v, next) ==
    /\ th[t].pc = label
    /\ SetField(f, v)
    /\ Goto(t, next)
    /\ UNCHANGED <<mu, lin>>
    /\ ThreadFrame

MSStep(t) ==
    \/ MSAssign(t, "ms_count", "ErrorCount", 0, "ms_reasons")
    \/ MSAssign(t, "ms_reasons", "FailureCounts", EmptyMap, "ms_cool")
    \/ MSAssign(t, "ms_cool", "CooldownEnd", ZeroTime, "ms_until")
    \/ MSAssign(t, "ms_until", "DisabledUntil", ZeroTime, "ms_why")
    \/ MSAssign(t, "ms_why", "DisabledReason", "", "unlock")

\* The readers: entry := ct.entries[provider]; if entry == nil { return ... }
ReadGet(t, label, whenNil, next) ==
    /\ th[t].pc = label
    /\ IF Shared \in DOMAIN entries
       THEN th' = [th EXCEPT ![t].pc = next, ![t].found = TRUE]
       ELSE th' = [th EXCEPT ![t].pc = "runlock", ![t].ret = whenNil,
                             ![t].want = whenNil]
    /\ UNCHANGED <<entries, mu, lin>>
    /\ ThreadFrame

\* now := ct.nowFunc().  The answer the call owes is the method's at this
\* instant.
ReadNow(t, label, answer, first, next) ==
    /\ th[t].pc = label
    /\ th' = [th EXCEPT ![t].pc = next, ![t].now = now, ![t].ret = first,
                        ![t].want = answer]
    /\ UNCHANGED <<entries, mu, lin>>
    /\ ThreadFrame

\* IsAvailable: the test of one expiry; false when it lies ahead.
IATest(t, label, f, next) ==
    /\ th[t].pc = label
    /\ IF ~IsZero(entries[Shared][f]) /\ Before(th[t].now, entries[Shared][f])
       THEN th' = [th EXCEPT ![t].pc = "runlock", ![t].ret = FALSE]
       ELSE Goto(t, next)
    /\ UNCHANGED <<entries, mu, lin>>
    /\ ThreadFrame

IAStep(t) ==
    \/ ReadGet(t, "ia_get", TRUE, "ia_now")
    \/ ReadNow(t, "ia_now", IsAvailable(Shared), TRUE, "ia_disabled")
    \/ IATest(t, "ia_disabled", "DisabledUntil", "ia_cool")
    \/ IATest(t, "ia_cool", "CooldownEnd", "runlock")

\* CooldownRemaining: one expiry folded into the running maximum.
CRFold(t, label, f, next) ==
    /\ th[t].pc = label
    /\ LET d == entries[Shared][f] - th[t].now
       IN IF ~IsZero(entries[Shared][f]) /\ Before(th[t].now, entries[Shared][f])
             /\ d > th[t].ret
          THEN th' = [th EXCEPT ![t].pc = next, ![t].ret = d]
          ELSE Goto(t, next)
    /\ UNCHANGED <<entries, mu, lin>>
    /\ ThreadFrame

CRStep(t) ==
    \/ ReadGet(t, "cr_get", 0, "cr_now")
    \/ ReadNow(t, "cr_now", CooldownRemaining(Shared), 0, "cr_disabled")
    \/ CRFold(t, "cr_disabled", "DisabledUntil", "cr_cool")
    \/ CRFold(t, "cr_cool", "CooldownEnd", "runlock")

\* ErrorCount and FailureCount: the lookup, then the field returned.
CountGet(t, label, answer) ==
    /\ th[t].pc = label
    /\ th' = [th EXCEPT ![t].pc = "runlock", ![t].ret = answer, ![t].want = answer,
                        ![t].found = Shared \in DOMAIN entries]
    /\ UNCHANGED <<entries, mu, lin>>
    /\ ThreadFrame

CountStep(t) ==
    \/ CountGet(t, "ec_get", ErrorCount(Shared))
    \/ CountGet(t, "fc_get", FailureCount(Shared, th[t].reason))

ThreadStep(t) ==
    \/ \E op \in ThreadOps, r \in ThreadReasons :
          /\ (op \notin {"MarkFailure", "FailureCount"} => r = FailoverRateLimit)
          /\ Begin(t, op, r)
    \/ Lock(t)
    \/ MFNow(t)
    \/ MFGet(t)
    \/ MFWindow(t)
    \/ MFReset(t)
    \/ MFCount(t)
    \/ MFReason(t)
    \/ MFLast(t)
    \/ MFCool(t)
    \/ MFDisabled(t)
    \/ MSGet(t)
    \/ MSStep(t)
    \/ Unlock(t)
    \/ RLock(t)
    \/ IAStep(t)
    \/ CRStep(t)
    \/ CountStep(t)
    \/ RUnlock(t)

\* The clock moves under the goroutines; the history of whole calls is not
\* kept here.
Tick(t) ==
    /\ t > now
    /\ now' = t
    /\ UNCHANGED <<trackerVars, harnessVars, engineVars, lockVars>>

ThreadsNext ==
    \/ \E t \in Threads : ThreadStep(t)
    \/ \E d \in ThreadOffsets : Tick(StartTime + d)

SpecThreads == TrackerInit /\ [][ThreadsNext]_vars

-----------------------------------------------------------------------------
(* Backoff harness: a schedule applied to a pair of counters *)

BackoffInit ==
    /\ entries = EmptyMap
    /\ now = StartTime
    /\ last = NoCall
    /\ scen = [p \in Providers |-> "fresh"]
    /\ streak = [p \in Providers |-> 0]
    /\ arg \in (0..MaxArg) \X (0..MaxArg)
    /\ out = [fn |-> "none"]
    /\ registry = Providers
    /\ EngineIdle
    /\ ThreadsIdle

ApplyStandard ==
    /\ out.fn = "none"
    /\ out' = [fn |-> "standard",
               a |-> calculateStandardCooldown(arg[1]),
               b |-> calculateStandardCooldown(arg[2])]
    /\ UNCHANGED <<now, trackerVars, engineVars, lockVars, arg>>

ApplyBilling ==
    /\ out.fn = "none"
    /\ out' = [fn |-> "billing",
               a |-> calculateBillingCooldown(arg[1]),
               b |-> calculateBillingCooldown(arg[2])]
    /\ UNCHANGED <<now, trackerVars, engineVars, lockVars, arg>>

BackoffNext == ApplyStandard \/ ApplyBilling

SpecBackoff == BackoffInit /\ [][BackoffNext]_vars

-----------------------------------------------------------------------------
(* Classifier harness: ClassifyError and extractHTTPStatus applied to an     *)
(* error, a provider key and a model id                                      *)

\* The longest free message, in words.
MaxWords == 3

\* The errors classified: nil, the two sentinels, and errors with a message.
\* A free message is made of a lead of the status pattern, codes, one word of
\* each bucket of classifyByMessage and a word no bucket knows.  A framed
\* message is a status lead and a code between a text before and a text
\* after: "API request failed: Status: <code> Body: ..." is what the HTTP
\* adapter reports, "HTTP/1.1 502 Bad Gateway" a status line.
ClassifierErrors ==
    LET words == {"status:", "429", "402", "502", "418", "rate_limit",
                  "overloaded", "timeout", "forbidden", "tool_use_id", "oops"}
        leads == {"status:", "status", "Status:", "HTTP/1.1", "HTTP"}
        before == { <<>>, <<"API", "request", "failed:">>,
                    <<"image", "exceeds", "5", "mb">>,
                    <<"image", "dimensions", "exceed", "max">> }
        after == { <<>>, <<"Bad", "Gateway">>, <<"rate_limit">>,
                   <<"Body:", "overloaded">> }
        framed == { pre \o <<lead, code>> \o post :
                      pre \in before, lead \in leads,
                      code \in StatusWords, post \in after }
    IN {NoErr, ErrCanceled, ErrDeadline}
          \cup { ErrText(m) : m \in SeqsUpTo(words, MaxWords) \cup framed }

ClassifierInit ==
    /\ entries = EmptyMap
    /\ now = StartTime
    /\ last = NoCall
    /\ scen = [p \in Providers |-> "fresh"]
    /\ streak = [p \in Providers |-> 0]
    /\ arg \in [err : ClassifierErrors,
                 to : { [provider |-> "openai", model |-> "gpt-4"],
                        [provider |-> "anthropic", model |-> "claude-3-opus"] }]
    /\ out = [fn |-> "none"]
    /\ registry = Providers
    /\ EngineIdle
    /\ ThreadsIdle

ApplyClassifyError ==
    /\ out.fn = "none"
    /\ out' = [fn |-> "ClassifyError",
               val |-> ClassifyError(arg.err, arg.to.provider, arg.to.model)]
    /\ UNCHANGED <<now, trackerVars, engineVars, lockVars, arg>>

\* extractHTTPStatus on the message as it is written, as its test calls it.
ApplyExtractHTTPStatus ==
    /\ out.fn = "none"
    /\ arg.err.kind = "other"
    /\ out' = [fn |-> "extractHTTPStatus", val |-> extractHTTPStatus(arg.err.msg)]
    /\ UNCHANGED <<now, trackerVars, engineVars, lockVars, arg>>

ClassifierNext == ApplyClassifyError \/ ApplyExtractHTTPStatus

SpecClassifier == ClassifierInit /\ [][ClassifierNext]_vars

-----------------------------------------------------------------------------
(* Resolver harness: ParseModelRef applied to a text and a default provider *)

\* The longest text handed to ParseModelRef, in pieces.
MaxRefLen == 5

ResolverInit ==
    /\ entries = EmptyMap
    /\ now = StartTime
    /\ last = NoCall
    /\ scen = [p \in Providers |-> "fresh"]
    /\ streak = [p \in Providers |-> 0]
    /\ arg \in [raw : SeqsUpTo({" ", "/", "gpt", "Claude", "openai", "GPT-4", "gpt-4"},
                                MaxRefLen),
                 defaultProvider : { <<"openai">>, <<" ", "Claude">> }]
    /\ out = [fn |-> "none"]
    /\ registry = Providers
    /\ EngineIdle
    /\ ThreadsIdle

ApplyParseModelRef ==
    /\ out.fn = "none"
    /\ out' = [fn |-> "ParseModelRef",
               val |-> ParseModelRef(arg.raw, arg.defaultProvider)]
    /\ UNCHANGED <<now, trackerVars, engineVars, lockVars, arg>>

ResolverNext == ApplyParseModelRef

SpecResolver == ResolverInit /\ [][ResolverNext]_vars

-----------------------------------------------------------------------------
(* Provider adapters: what each makes of an upstream response.  The           *)
(* OpenAI-compatible parseResponse is in the source; the Anthropic and the    *)
(* CLI adapter are described in section 4.4 of the specification.             *)

MaxChoices == 2
MaxToolCalls == 2
MaxBlocks == 2
MaxEvents == 3

\* The upstream responses.  For the OpenAI-compatible adapter a body: whether
\* it is valid JSON, its number of choices, and the first choice, the only one
\* parseResponse reads, with its finish_reason ("" for a choice without the
\* field) and its tool calls (the function missing, or carrying no arguments,
\* arguments that decode, or arguments that do not).  For the Anthropic
\* adapter a message: its stop_reason and its content blocks.  For the CLI
\* adapter the JSON-Lines events of the child process.
UpstreamResponses ==
    LET finishReasons == {"stop", "length", "tool_calls", "content_filter", ""}
        toolCalls == {"nofunction", "noarguments", "decodable", "undecodable"}
        stopReasons == {"end_turn", "max_tokens", "tool_use", "stop_sequence", ""}
        noChoice == [finish_reason |-> "", tool_calls |-> <<>>]
    IN { [adapter |-> "openai", valid |-> v, choices |-> 0, first |-> noChoice,
          stop_reason |-> "", items |-> <<>>] : v \in BOOLEAN }
          \cup
       { [adapter |-> "openai", valid |-> v, choices |-> n,
          first |-> [finish_reason |-> f, tool_calls |-> t],
          stop_reason |-> "", items |-> <<>>] :
           v \in BOOLEAN, n \in 1..MaxChoices, f \in finishReasons,
           t \in SeqsUpTo(toolCalls, MaxToolCalls) }
          \cup
       { [adapter |-> "anthropic", valid |-> TRUE, choices |-> 0,
          first |-> noChoice, stop_reason |-> r, items |-> b] :
           r \in stopReasons, b \in SeqsUpTo({"text", "tool_use"}, MaxBlocks) }
          \cup
       { [adapter |-> "cli", valid |-> TRUE, choices |-> 0, first |-> noChoice,
          stop_reason |-> "", items |-> e] :
           e \in SeqsUpTo({"text", "usage", "other"}, MaxEvents) }

\* Arguments of a decoded tool call: the decoded map, the raw string under
\* the key "raw", or the empty map.
DecodeArguments(shape) ==
    CASE shape = "decodable" -> "map"
      [] shape = "undecodable" -> "raw"
      [] OTHER -> "empty"

LLMResponseOf(toolCalls, finishReason) ==
    [failed |-> FALSE, ToolCalls |-> toolCalls, FinishReason |-> finishReason]

parseResponse(body) ==
    IF ~body.valid THEN [failed |-> TRUE]
    ELSE IF body.choices = 0 THEN LLMResponseOf(<<>>, "stop")
    ELSE LLMResponseOf(
            [i \in DOMAIN body.first.tool_calls |->
                [Arguments |-> DecodeArguments(body.first.tool_calls[i])]],
            body.first.finish_reason)

\* end_turn gives stop, max_tokens length, tool_use tool_calls; a message
\* without stop_reason gives stop, and so is any other taken here.
parseAnthropicResponse(message) ==
    LET uses == SelectSeq(message.items, LAMBDA b : b = "tool_use")
    IN LLMResponseOf(
          [i \in DOMAIN uses |-> [Arguments |-> "map"]],
          CASE message.stop_reason = "tool_use" -> "tool_calls"
            [] message.stop_reason = "max_tokens" -> "length"
            [] OTHER -> "stop")

\* The events are folded into one response; finish_reason defaults to stop.
parseJSONLEvents(output) == LLMResponseOf(<<>>, "stop")

AdaptersInit ==
    /\ entries = EmptyMap
    /\ now = StartTime
    /\ last = NoCall
    /\ scen = [p \in Providers |-> "fresh"]
    /\ streak = [p \in Providers |-> 0]
    /\ arg \in UpstreamResponses
    /\ out = [fn |-> "none"]
    /\ registry = Providers
    /\ EngineIdle
    /\ ThreadsIdle

ApplyParseResponse ==
    /\ out.fn = "none"
    /\ arg.adapter = "openai"
    /\ out' = [fn |-> "parseResponse", val |-> parseResponse(arg)]
    /\ UNCHANGED <<now, trackerVars, engineVars, lockVars, arg>>

ApplyParseAnthropicResponse ==
    /\ out.fn = "none"
    /\ arg.adapter = "anthropic"
    /\ out' = [fn |-> "parseAnthropicResponse", val |-> parseAnthropicResponse(arg)]
    /\ UNCHANGED <<now, trackerVars, engineVars, lockVars, arg>>

ApplyParseJSONLEvents ==
    /\ out.fn = "none"
    /\ arg.adapter = "cli"
    /\ out' = [fn |-> "parseJSONLEvents", val |-> parseJSONLEvents(arg)]
    /\ UNCHANGED <<now, trackerVars, engineVars, lockVars, arg>>

AdaptersNext ==
    \/ ApplyParseResponse
    \/ ApplyParseAnthropicResponse
    \/ ApplyParseJSONLEvents

SpecAdapters == AdaptersInit /\ [][AdaptersNext]_vars

-----------------------------------------------------------------------------
(* The MCP manager: LoadFromMCPConfig starts one goroutine per enabled       *)
(* server, each calls ConnectServer, and the errors are collected when all   *)
(* have ended.  What the file system and the servers answer is open.         *)

MaxServers == 2

\* The inputs of LoadFromMCPConfig.  A server has an env_file (none, a
\* relative path or an absolute one) and the transport ConnectServer settles
\* on: stdio (a command), sse (a URL), or none when the configuration names
\* neither.  held are the servers the manager holds when the call is made,
\* stored by an earlier ConnectServer or an earlier load: one under a name of
\* its own (0) and one under the name of a configured server.
MCPInputs ==
    LET enabled == [Enabled : {TRUE}, EnvFile : {"", ".env", "/etc/mcp.env"},
                    Transport : {"stdio", "sse", "none"}]
        disabled == [Enabled |-> FALSE, EnvFile |-> "", Transport |-> "none"]
    IN [Enabled : BOOLEAN,
        Servers : UNION { [names -> enabled \cup {disabled}] :
                            names \in SUBSET (1..MaxServers) },
        workspacePath : {"", "/ws"},
        held : SUBSET {0, 1}]

\* The env_file handed to ConnectServer: a relative one is joined to the
\* workspace.  A path is the directory it is looked up in ("" for none, the
\* file then being taken as it is written) and the file.
ResolvedEnvFile(cfg, workspace) ==
    IF cfg.EnvFile # "" /\ cfg.EnvFile # "/etc/mcp.env"
    THEN [dir |-> workspace, file |-> cfg.EnvFile]
    ELSE [dir |-> "", file |-> cfg.EnvFile]

\* What ConnectServer can end with, the answers of the file system and of the
\* server being open: an error, or "" for a stored connection.
ConnectOutcomes(cfg, envFile) ==
    CASE cfg.Transport = "none" -> {"either URL or command must be provided"}
      [] cfg.Transport = "sse" -> {"failed to connect", ""}
      [] OTHER -> IF envFile.file # ""
                  THEN {"failed to load env file", "failed to connect", ""}
                  ELSE {"failed to connect", ""}

\* servers is m.servers, by name; connected is history, the servers whose
\* ConnectServer of this call stored a connection.
LoadReturned(servers, connected, errs, ret) ==
    [fn |-> "LoadFromMCPConfig", phase |-> "returned", pending |-> {},
     servers |-> servers, connected |-> connected, errs |-> errs, ret |-> ret]

ManagerInit ==
    /\ entries = EmptyMap
    /\ now = StartTime
    /\ last = NoCall
    /\ scen = [p \in Providers |-> "fresh"]
    /\ streak = [p \in Providers |-> 0]
    /\ arg \in MCPInputs
    /\ out = [fn |-> "none"]
    /\ registry = Providers
    /\ EngineIdle
    /\ ThreadsIdle

\* LoadFromMCPConfig up to the start of the goroutines.
LoadStart ==
    /\ out.fn = "none"
    /\ out' = IF ~arg.Enabled \/ DOMAIN arg.Servers = {}
              THEN LoadReturned(arg.held, {}, {}, [kind |-> "nil", joined |-> {}])
              ELSE [fn |-> "LoadFromMCPConfig", phase |-> "connecting",
                    pending |-> { n \in DOMAIN arg.Servers : arg.Servers[n].Enabled },
                    servers |-> arg.held, connected |-> {}, errs |-> {},
                    ret |-> [kind |-> "nil", joined |-> {}]]
    /\ UNCHANGED <<now, trackerVars, engineVars, lockVars, arg>>

\* The goroutine of one server: the env_file is resolved against the workspace
\* and ConnectServer is called.
ConnectServer(n) ==
    /\ out.fn = "LoadFromMCPConfig"
    /\ out.phase = "connecting"
    /\ n \in out.pending
    /\ \E e \in ConnectOutcomes(arg.Servers[n],
                                 ResolvedEnvFile(arg.Servers[n], arg.workspacePath)) :
          out' = [out EXCEPT !.pending = @ \ {n},
                             !.servers = IF e = "" THEN @ \cup {n} ELSE @,
                             !.connected = IF e = "" THEN @ \cup {n} ELSE @,
                             !.errs = IF e = "" THEN @
                                      ELSE @ \cup {[server |-> n, cause |-> e]}]
    /\ UNCHANGED <<now, trackerVars, engineVars, lockVars, arg>>

\* After wg.Wait: the errors are joined when the manager holds no server.
LoadCollect ==
    /\ out.fn = "LoadFromMCPConfig"
    /\ out.phase = "connecting"
    /\ out.pending = {}
    /\ LET enabledCount ==
               Cardinality({ n \in DOMAIN arg.Servers : arg.Servers[n].Enabled })
           connectedCount == Cardinality(out.servers)
       IN out' = LoadReturned(out.servers, out.connected, out.errs,
                     IF enabledCount > 0 /\ connectedCount = 0
                     THEN [kind |-> "error", joined |-> out.errs]
                     ELSE [kind |-> "nil", joined |-> {}])
    /\ UNCHANGED <<now, trackerVars, engineVars, lockVars, arg>>

ManagerNext ==
    \/ LoadStart
    \/ \E n \in 1..MaxServers : ConnectServer(n)
    \/ LoadCollect

SpecManager == ManagerInit /\ [][ManagerNext]_vars

-----------------------------------------------------------------------------
(* SplitMessage: a text is a sequence of characters; positions are counted   *)
(* from 0 as in the source, so content[:k] is SubSeq(content, 1, k) and      *)
(* content[i] is the element i + 1.                                          *)

MaxSegments == 5
MaxChunks == 6

\* A slip in the room left for the injected closing fence "\n" and three
\* backquotes: one character too few.
innerLimit_NoRoom(maxLen) == maxLen - 3

\* The cut inside a code block: room is left for the injected closing fence.
innerLimit(maxLen) == maxLen - 5

\* The fence of a code block: three backquotes, each written by name.
Tick3 == <<"backquote", "backquote", "backquote">>

Prefix(s, k) == SubSeq(s, 1, k)
Suffix(s, k) == SubSeq(s, k + 1, Len(s))

MaxOf(S) == CHOOSE x \in S : \A y \in S : y <= x
MinOf(S) == CHOOSE x \in S : \A y \in S : x <= y

findLastNewline(s, searchWindow) ==
    LET searchStart == Max(Len(s) - searchWindow, 0)
        found == { i \in searchStart..(Len(s) - 1) : s[i + 1] = "\n" }
    IN IF found = {} THEN -1 ELSE MaxOf(found)

findLastSpace(s, searchWindow) ==
    LET searchStart == Max(Len(s) - searchWindow, 0)
        found == { i \in searchStart..(Len(s) - 1) : s[i + 1] \in {" ", "\t"} }
    IN IF found = {} THEN -1 ELSE MaxOf(found)

FenceAt(text, i) ==
    /\ i + 2 < Len(text)
    /\ SubSeq(text, i + 1, i + 3) = Tick3

\* The scan of findLastUnclosedCodeBlock from position i on.
RECURSIVE ScanFences(_, _, _, _)
ScanFences(text, i, inCodeBlock, lastOpenIdx) ==
    IF i >= Len(text) THEN (IF inCodeBlock THEN lastOpenIdx ELSE -1)
    ELSE IF FenceAt(text, i)
    THEN ScanFences(text, i + 3, ~inCodeBlock,
                    IF ~inCodeBlock THEN i ELSE lastOpenIdx)
    ELSE ScanFences(text, i + 1, inCodeBlock, lastOpenIdx)

findLastUnclosedCodeBlock(text) == ScanFences(text, 0, FALSE, -1)

findNextClosingCodeBlock(text, startIdx) ==
    LET found == { i \in startIdx..(Len(text) - 1) : FenceAt(text, i) }
    IN IF found = {} THEN -1 ELSE MinOf(found) + 3

\* strings.Index(s, "\n"): the first newline, -1 when there is none.
IndexNewline(s) ==
    LET found == { i \in 0..(Len(s) - 1) : s[i + 1] = "\n" }
    IN IF found = {} THEN -1 ELSE MinOf(found)

codeBlockBuffer(maxLen) ==
    LET tenth == maxLen \div 10
        atLeast == IF tenth < 50 THEN 50 ELSE tenth
    IN IF atLeast > maxLen \div 2 THEN maxLen \div 2 ELSE atLeast

\* One round of the loop of SplitMessage on a content longer than maxLen: the
\* chunk appended and the content left.  A slice outside the content panics.
SplitResult(panic, chunk, rest) == [panic |-> panic, chunk |-> chunk, rest |-> rest]

SplitRound(content, maxLen) ==
    LET effectiveLimit ==
            Max(maxLen - codeBlockBuffer(maxLen), maxLen \div 2)
        head == Prefix(content, effectiveLimit)
        atNewline == findLastNewline(head, 200)
        atSpace == findLastSpace(head, 100)
        msgEnd == IF atNewline > 0 THEN atNewline
                  ELSE IF atSpace > 0 THEN atSpace
                  ELSE effectiveLimit
        unclosedIdx == findLastUnclosedCodeBlock(Prefix(content, msgEnd))
        closingIdx == findNextClosingCodeBlock(content, msgEnd)
        relative == IndexNewline(Suffix(content, unclosedIdx))
        headerEnd == IF relative = -1 THEN unclosedIdx + 3 ELSE relative + unclosedIdx
        header == TrimSpace(SubSeq(content, unclosedIdx + 1, headerEnd))
        betterEnd == findLastNewline(Prefix(content, innerLimit(maxLen)), 200)
        beforeNewline == findLastNewline(Prefix(content, unclosedIdx), 200)
        beforeSpace == findLastSpace(Prefix(content, unclosedIdx), 100)
        newEnd == IF beforeNewline > 0 THEN beforeNewline ELSE beforeSpace
        Plain(end) ==
            LET e == IF end <= 0 THEN effectiveLimit ELSE end
            IN SplitResult(FALSE, Prefix(content, e), TrimSpace(Suffix(content, e)))
        Inject(end) ==
            IF end < 0 \/ end > Len(content) THEN SplitResult(TRUE, <<>>, <<>>)
            ELSE SplitResult(FALSE, TrimRight(Prefix(content, end)) \o <<"\n">> \o Tick3,
                             TrimSpace(header \o <<"\n">> \o Suffix(content, end)))
    IN IF unclosedIdx >= 0 /\ Len(content) > msgEnd
       THEN IF closingIdx > 0 /\ closingIdx <= maxLen THEN Plain(closingIdx)
            ELSE IF msgEnd > headerEnd + 20
            THEN IF innerLimit(maxLen) < 0 THEN SplitResult(TRUE, <<>>, <<>>)
                 ELSE Inject(IF betterEnd > headerEnd THEN betterEnd
                             ELSE innerLimit(maxLen))
            ELSE IF newEnd > 0 THEN Plain(newEnd)
            ELSE IF unclosedIdx > 20 THEN Plain(unclosedIdx)
            ELSE Inject(innerLimit(maxLen))
       ELSE Plain(msgEnd)

RECURSIVE Flatten(_)
Flatten(segs) == IF segs = <<>> THEN <<>> ELSE Head(segs) \o Flatten(Tail(segs))

\* The texts split: up to MaxSegments pieces, each a fence, a newline, a blank
\* or a run of sixteen letters.
Contents ==
    LET segments == { Tick3, <<"\n">>, <<" ">>, [i \in 1..16 |-> "a"] }
    IN { Flatten(segs) : segs \in SeqsUpTo(segments, MaxSegments) }

SplitInit ==
    /\ entries = EmptyMap
    /\ now = StartTime
    /\ last = NoCall
    /\ scen = [p \in Providers |-> "fresh"]
    /\ streak = [p \in Providers |-> 0]
    /\ arg \in [content : Contents, maxLen : {1, 5, 12, 30, 47, 60}]
    /\ out = [fn |-> "none"]
    /\ registry = Providers
    /\ EngineIdle
    /\ ThreadsIdle

SplitEnter ==
    /\ out.fn = "none"
    /\ out' = [fn |-> "SplitMessage", at |-> "loop", content |-> arg.content,
               messages |-> <<>>]
    /\ UNCHANGED <<now, trackerVars, engineVars, lockVars, arg>>

\* One round of the loop; a content that fits is the last chunk.
SplitLoop ==
    /\ out.fn = "SplitMessage"
    /\ out.at = "loop"
    /\ Len(out.content) > 0
    /\ Len(out.messages) < MaxChunks
    /\ IF Len(out.content) <= arg.maxLen
       THEN out' = [out EXCEPT !.messages = Append(@, out.content),
                               !.content = <<>>]
       ELSE LET r == SplitRound(out.content, arg.maxLen)
            IN IF r.panic THEN out' = [out EXCEPT !.at = "panic"]
               ELSE out' = [out EXCEPT !.messages = Append(@, r.chunk),
                                       !.content = r.rest]
    /\ UNCHANGED <<now, trackerVars, engineVars, lockVars, arg>>

SplitReturn ==
    /\ out.fn = "SplitMessage"
    /\ out.at = "loop"
    /\ Len(out.content) = 0
    /\ out' = [out EXCEPT !.at = "returned"]
    /\ UNCHANGED <<now, trackerVars, engineVars, lockVars, arg>>

SplitNext == SplitEnter \/ SplitLoop \/ SplitReturn

SpecSplit == SplitInit /\ [][SplitNext]_vars

-----------------------------------------------------------------------------
(* NormalizeAgentID: an id is a sequence of characters *)

DefaultAgentID == <<"m", "a", "i", "n">>
MaxAgentIDLength == 64

\* The longest short id, in characters.
MaxIDChars == 4

LowerAlnum == {"a", "m", "i", "n", "1"}

\* validIDRe: ^[a-z0-9][a-z0-9_-]{0,63}$
validIDRe(s) ==
    /\ Len(s) >= 1
    /\ Len(s) <= 64
    /\ s[1] \in LowerAlnum
    /\ \A i \in 2..Len(s) : s[i] \in LowerAlnum \cup {"_", "-"}

\* invalidCharsRe: every run of characters outside a-z0-9_- becomes one "-".
RECURSIVE ReplaceInvalid(_)
ReplaceInvalid(s) ==
    IF s = <<>> THEN <<>>
    ELSE IF Head(s) \in LowerAlnum \cup {"_", "-"}
    THEN <<Head(s)>> \o ReplaceInvalid(Tail(s))
    ELSE IF Len(s) > 1 /\ s[2] \notin LowerAlnum \cup {"_", "-"}
    THEN ReplaceInvalid(Tail(s))
    ELSE <<"-">> \o ReplaceInvalid(Tail(s))

\* leadingDashRe and trailingDashRe: the dashes at either end are cut.
RECURSIVE StripLeadingDashes(_)
StripLeadingDashes(s) ==
    IF s # <<>> /\ Head(s) = "-" THEN StripLeadingDashes(Tail(s)) ELSE s

RECURSIVE StripTrailingDashes(_)
StripTrailingDashes(s) ==
    IF s # <<>> /\ s[Len(s)] = "-"
    THEN StripTrailingDashes(SubSeq(s, 1, Len(s) - 1)) ELSE s

NormalizeAgentID(id) ==
    LET trimmed == TrimSpace(id)
        lower == ToLower(trimmed)
        stripped == StripTrailingDashes(StripLeadingDashes(ReplaceInvalid(lower)))
        cut == IF Len(stripped) > MaxAgentIDLength
                  THEN SubSeq(stripped, 1, MaxAgentIDLength) ELSE stripped
    IN IF trimmed = <<>> THEN DefaultAgentID
       ELSE IF validIDRe(lower) THEN lower
       ELSE IF cut = <<>> THEN DefaultAgentID
       ELSE cut

\* The ids normalized: every short id, and long ones around the limit, a run
\* of letters between two short ends.
AgentIDs ==
    LET chars == {"a", "A", "1", "_", "-", "@", " "}
        long == { pre \o [i \in 1..n |-> "a"] \o post :
                    pre \in SeqsUpTo(chars, 1), post \in SeqsUpTo(chars, 1),
                    n \in (MaxAgentIDLength - 2)..(MaxAgentIDLength + 2) }
    IN SeqsUpTo(chars, MaxIDChars) \cup long

AgentIDInit ==
    /\ entries = EmptyMap
    /\ now = StartTime
    /\ last = NoCall
    /\ scen = [p \in Providers |-> "fresh"]
    /\ streak = [p \in Providers |-> 0]
    /\ arg \in AgentIDs
    /\ out = [fn |-> "none"]
    /\ registry = Providers
    /\ EngineIdle
    /\ ThreadsIdle

ApplyNormalizeAgentID ==
    /\ out.fn = "none"
    /\ out' = [fn |-> "NormalizeAgentID", val |-> NormalizeAgentID(arg)]
    /\ UNCHANGED <<now, trackerVars, engineVars, lockVars, arg>>

AgentIDNext == ApplyNormalizeAgentID

SpecAgentID == AgentIDInit /\ [][AgentIDNext]_vars

-----------------------------------------------------------------------------
(* The MCP manager's life: ConnectServer, CallTool and Close run by          *)
(* goroutines that share one Manager.  out is the Manager (servers, closed)  *)
(* with the sessions its clients opened, mu is Manager.mu, th the            *)
(* goroutines.  A session is the number of times its Close was called; it    *)
(* is open while that is 0.                                                  *)

\* Calls the goroutines make on the manager between them.
MaxManagerCalls == 4

\* NewManager, with the history kept beside it: stored, the sessions ever put
\* in m.servers; misuse, the sessions CallTool was run on after their Close;
\* closeReturned, whether a Close has returned.
NewManager ==
    [fn |-> "Manager", servers |-> EmptyMap, closed |-> FALSE, sessions |-> <<>>,
     stored |-> {}, misuse |-> {}, closeReturned |-> FALSE]

IdleWorker ==
    [pc |-> "idle", op |-> "none", name |-> 0, session |-> 0, ok |-> FALSE,
     afterClose |-> FALSE, seen |-> <<>>, used |-> {}, touched |-> {},
     ret |-> "", calls |-> 0]

LifecycleInit ==
    /\ entries = EmptyMap
    /\ now = StartTime
    /\ last = NoCall
    /\ scen = [p \in Providers |-> "fresh"]
    /\ streak = [p \in Providers |-> 0]
    /\ arg = <<0, 0>>
    /\ out = NewManager
    /\ registry = Providers
    /\ EngineIdle
    /\ mu = [writer |-> NoThread, readers |-> {}]
    /\ th = [t \in Threads |-> IdleWorker]
    /\ lin = EmptyMap

LifecycleFrame == UNCHANGED <<now, trackerVars, engineVars, arg, lin>>

\* A goroutine calls a method of the manager.  afterClose is history: a Close
\* had returned when the call was made.
ManagerCall(t, op, name) ==
    /\ th[t].pc = "idle"
    /\ CallsMade < MaxManagerCalls
    /\ th' = [th EXCEPT ![t] = [IdleWorker EXCEPT
                                  !.pc = CASE op = "ConnectServer" -> "cs_connect"
                                           [] op = "CallTool" -> "ct_rlock"
                                           [] OTHER -> "cl_lock",
                                  !.op = op, !.name = name,
                                  !.afterClose = out.closeReturned,
                                  !.calls = th[t].calls + 1]]
    /\ UNCHANGED <<out, mu>>
    /\ LifecycleFrame

Return(t, ret) == th' = [th EXCEPT ![t].pc = "idle", ![t].ret = ret]

\* ConnectServer up to client.Connect: an error on the way returns, a session
\* goes on to be stored.
CSConnect(t) ==
    /\ th[t].pc = "cs_connect"
    /\ \/ /\ Return(t, "failed to connect")
          /\ UNCHANGED out
       \/ /\ out' = [out EXCEPT !.sessions = Append(@, 0)]
          /\ th' = [th EXCEPT ![t].pc = "cs_lock", ![t].session = Len(out.sessions) + 1]
    /\ UNCHANGED mu
    /\ LifecycleFrame

\* m.mu.Lock()
CSLock(t) ==
    /\ th[t].pc = "cs_lock"
    /\ CanLock
    /\ mu' = [mu EXCEPT !.writer = t]
    /\ Goto(t, "cs_store")
    /\ UNCHANGED out
    /\ LifecycleFrame

\* m.servers[name] = &ServerConnection{...}
CSStore(t) ==
    /\ th[t].pc = "cs_store"
    /\ out' = [out EXCEPT !.servers = MapPut(@, th[t].name, th[t].session),
                          !.stored = @ \cup {th[t].session}]
    /\ Goto(t, "cs_unlock")
    /\ UNCHANGED mu
    /\ LifecycleFrame

\* m.mu.Unlock(); return nil
CSUnlock(t) ==
    /\ th[t].pc = "cs_unlock"
    /\ mu' = [mu EXCEPT !.writer = NoThread]
    /\ Return(t, "nil")
    /\ UNCHANGED out
    /\ LifecycleFrame

\* CallTool: m.mu.RLock()
CTRLock(t) ==
    /\ th[t].pc = "ct_rlock"
    /\ CanRLock
    /\ mu' = [mu EXCEPT !.readers = @ \cup {t}]
    /\ Goto(t, "ct_closed")
    /\ UNCHANGED out
    /\ LifecycleFrame

\* if m.closed { ... }
CTClosedBranch(closed) == IF closed THEN "ct_runlock_closed" ELSE "ct_lookup"

\* The test of m.closed.  seen is history: the manager as the call found it.
CTClosed(t) ==
    /\ th[t].pc = "ct_closed"
    /\ th' = [th EXCEPT ![t].pc = CTClosedBranch(out.closed),
                        ![t].seen = [closed |-> out.closed,
                                     held |-> DOMAIN out.servers]]
    /\ UNCHANGED <<out, mu>>
    /\ LifecycleFrame

\* conn, ok := m.servers[serverName]
CTLookup(t) ==
    /\ th[t].pc = "ct_lookup"
    /\ th' = [th EXCEPT ![t].pc = "ct_runlock",
                        ![t].ok = th[t].name \in DOMAIN out.servers,
                        ![t].session = MapGet(out.servers, th[t].name, 0)]
    /\ UNCHANGED <<out, mu>>
    /\ LifecycleFrame

\* m.mu.RUnlock(), and the two early returns
CTRUnlock(t) ==
    /\ th[t].pc \in {"ct_runlock_closed", "ct_runlock"}
    /\ mu' = [mu EXCEPT !.readers = @ \ {t}]
    /\ IF th[t].pc = "ct_runlock_closed" THEN Return(t, "manager is closed")
       ELSE IF ~th[t].ok THEN Return(t, "not found")
       ELSE Goto(t, "ct_session")
    /\ UNCHANGED out
    /\ LifecycleFrame

\* conn.Session.CallTool(ctx, params), with the lock released
CTSession(t) ==
    /\ th[t].pc = "ct_session"
    /\ \E ret \in {"result", "failed to call tool"} :
          th' = [th EXCEPT ![t].pc = "idle", ![t].ret = ret,
                           ![t].used = {th[t].session}]
    /\ out' = [out EXCEPT !.misuse = IF out.sessions[th[t].session] > 0
                                     THEN @ \cup {th[t].session} ELSE @]
    /\ UNCHANGED mu
    /\ LifecycleFrame

\* Close: m.mu.Lock()
CLLock(t) ==
    /\ th[t].pc = "cl_lock"
    /\ CanLock
    /\ mu' = [mu EXCEPT !.writer = t]
    /\ Goto(t, "cl_body")
    /\ UNCHANGED out
    /\ LifecycleFrame

\* The sessions m.servers holds.
HeldSessions(m) == { m.servers[n] : n \in DOMAIN m.servers }

\* A slip in the flag: the connections are closed and the manager stays open.
ManagerAfterClose_FlagUnset(m) ==
    [m EXCEPT !.sessions = [i \in DOMAIN m.sessions |->
                               IF i \in HeldSessions(m) THEN m.sessions[i] + 1
                               ELSE m.sessions[i]],
              !.servers = EmptyMap]

\* The body of Close: nothing on a closed manager; else the flag is set,
\* Close is called on the session of every connection and m.servers is
\* replaced by an empty map.
ManagerAfterClose(m) ==
    IF m.closed THEN m
    ELSE [m EXCEPT !.closed = TRUE,
                   !.sessions = [i \in DOMAIN m.sessions |->
                                    IF i \in HeldSessions(m) THEN m.sessions[i] + 1
                                    ELSE m.sessions[i]],
                   !.servers = EmptyMap]

\* The body of Close, run under the lock.  What it returns: nil on a closed
\* manager, else nil or, when the Close of a session failed, an error.
CLBody(t) ==
    /\ th[t].pc = "cl_body"
    /\ out' = ManagerAfterClose(out)
    /\ \E ret \in {"nil", "failed to close"} :
          /\ ret = "failed to close" => (~out.closed /\ DOMAIN out.servers # {})
          /\ th' = [th EXCEPT ![t].pc = "cl_unlock", ![t].ret = ret,
                              ![t].touched =
                                  { i \in DOMAIN out.sessions :
                                      ManagerAfterClose(out).sessions[i] # out.sessions[i] }]
    /\ UNCHANGED mu
    /\ LifecycleFrame

\* The deferred m.mu.Unlock(), and the return.
CLUnlock(t) ==
    /\ th[t].pc = "cl_unlock"
    /\ mu' = [mu EXCEPT !.writer = NoThread]
    /\ out' = [out EXCEPT !.closeReturned = TRUE]
    /\ Goto(t, "idle")
    /\ LifecycleFrame

LifecycleNext ==
    \/ \E t \in Threads, op \in {"ConnectServer", "CallTool"}, n \in 1..MaxServers :
          ManagerCall(t, op, n)
    \/ \E t \in Threads : ManagerCall(t, "Close", 0)
    \/ \E t \in Threads : CSConnect(t)
    \/ \E t \in Threads : CSLock(t)
    \/ \E t \in Threads : CSStore(t)
    \/ \E t \in Threads : CSUnlock(t)
    \/ \E t \in Threads : CTRLock(t)
    \/ \E t \in Threads : CTClosed(t)
    \/ \E t \in Threads : CTLookup(t)
    \/ \E t \in Threads : CTRUnlock(t)
    \/ \E t \in Threads : CTSession(t)
    \/ \E t \in Threads : CLLock(t)
    \/ \E t \in Threads : CLBody(t)
    \/ \E t \in Threads : CLUnlock(t)

SpecLifecycle == LifecycleInit /\ [][LifecycleNext]_vars

-----------------------------------------------------------------------------
(* Claims about the tracker *)

AllReasons == Reasons \cup {FailoverFormat, "overloaded", "unknown"}

HasEntry(p) == p \in DOMAIN entries

\* C1: for every provider, at every instant, IsAvailable is true exactly when
\* CooldownRemaining is zero.
C1_AvailableIffNoRemaining ==
    \A p \in Providers : IsAvailable(p) <=> (CooldownRemaining(p) = 0)

\* The instant a standard cooldown expires, and the instant before a billing
\* disable does: the two sides agree on both.
C1_Witness ==
    /\ HasEntry("openai")
    /\ entries["openai"].ErrorCount > 0
    /\ now = entries["openai"].CooldownEnd
    /\ IsAvailable("openai")
    /\ CooldownRemaining("openai") = 0

\* C2: in every reachable state the error count of a provider is the sum of
\* its per-reason failure counts.
C2_ErrorCountIsSum ==
    \A p \in Providers :
        ErrorCount(p) = SumOver([r \in AllReasons |-> FailureCount(p, r)], AllReasons)

\* Right after a failure-window reset that dropped several counted failures.
C2_Witness ==
    /\ last.op = "MarkFailure"
    /\ last.pre.ErrorCount >= 2
    /\ Cardinality(DOMAIN last.pre.FailureCounts) >= 2
    /\ now - last.pre.LastFailure > Hours(24)
    /\ ErrorCount(last.provider) = 1

\* C3: right after MarkSuccess(p) the error count and every per-reason count
\* of p are 0 and p is available.
C3_SuccessResets ==
    last.op = "MarkSuccess" =>
        /\ ErrorCount(last.provider) = 0
        /\ \A r \in AllReasons : FailureCount(last.provider, r) = 0
        /\ IsAvailable(last.provider)

\* MarkSuccess on a provider that was billing-disabled and cooling down.
C3_Witness ==
    /\ last.op = "MarkSuccess"
    /\ last.had
    /\ last.pre.DisabledUntil > now
    /\ last.pre.CooldownEnd > now
    /\ last.pre.ErrorCount >= 2

\* C4 as stated: after the first rate_limit failure at t=0 the provider is
\* unavailable at t=60 s and available at t=61 s; after the second at t=61 s
\* it is unavailable at t=61 s + 4 min and available at t=61 s + 6 min.
C4_AsStated ==
    \A p \in Providers :
        /\ scen[p] = "rl0" =>
             /\ now = StartTime + Seconds(60) => ~IsAvailable(p)
             /\ now = StartTime + Seconds(61) => IsAvailable(p)
        /\ scen[p] = "rl0_rl61" =>
             /\ now = StartTime + Seconds(61) + Minutes(4) => ~IsAvailable(p)
             /\ now = StartTime + Seconds(61) + Minutes(6) => IsAvailable(p)

\* C4: standard escalation, amended: after the first rate_limit failure at t=0
\* the provider is unavailable at every instant before t=60 s and available
\* from t=60 s on (so at t=61 s); after the second failure at t=61 s it is
\* unavailable before t=61 s + 5 min (so at t=61 s + 4 min) and available
\* from then on (so at t=61 s + 6 min).
C4_StandardEscalation ==
    \A p \in Providers :
        /\ scen[p] = "rl0" =>
             (IsAvailable(p) <=> now >= StartTime + Seconds(60))
        /\ scen[p] = "rl0_rl61" =>
             (IsAvailable(p) <=> now >= StartTime + Seconds(61) + Minutes(5))

C4_Witness ==
    /\ scen["openai"] = "rl0_rl61"
    /\ now = StartTime + Seconds(61) + Minutes(4)
    /\ ~IsAvailable("openai")

\* C5: billing precedence.  A provider with both a standard cooldown and a
\* billing disable is unavailable until the later of the two expiries; after
\* a rate_limit and then a billing failure at t=0 it is unavailable at
\* t=2 min and available at t=5 h + 1 s.
C5_BillingPrecedence ==
    \A p \in Providers :
        /\ (HasEntry(p) /\ ~IsZero(entries[p].CooldownEnd)
                        /\ ~IsZero(entries[p].DisabledUntil)) =>
             (IsAvailable(p) <=>
                 now >= Max(entries[p].CooldownEnd, entries[p].DisabledUntil))
        /\ scen[p] = "rl0_bill0" =>
             /\ now = StartTime + Minutes(2) => ~IsAvailable(p)
             /\ now = StartTime + Hours(5) + Seconds(1) => IsAvailable(p)

\* The standard cooldown has expired and the billing disable has not.
C5_Witness ==
    /\ scen["openai"] = "rl0_bill0"
    /\ now = StartTime + Minutes(2)
    /\ now >= entries["openai"].CooldownEnd
    /\ ~IsAvailable("openai")

\* C6: a MarkFailure(p, r) made strictly more than 24 hours after p's last
\* recorded failure leaves ErrorCount(p) = 1, FailureCount(p, r) = 1 and every
\* other reason count 0; one made within 24 hours raises ErrorCount by one.
C6_FailureWindowReset ==
    (last.op = "MarkFailure" /\ last.had /\ ~IsZero(last.pre.LastFailure)) =>
        LET p == last.provider
            gap == now - last.pre.LastFailure
        IN /\ gap > Hours(24) =>
                /\ ErrorCount(p) = 1
                /\ FailureCount(p, last.reason) = 1
                /\ \A r \in AllReasons \ {last.reason} : FailureCount(p, r) = 0
           /\ gap <= Hours(24) =>
                ErrorCount(p) = last.pre.ErrorCount + 1

\* Four failures counted, then one 25 hours after the first: the count is 1.
C6_Witness ==
    /\ last.op = "MarkFailure"
    /\ last.pre.ErrorCount = 4
    /\ now = StartTime + Hours(25)
    /\ ErrorCount(last.provider) = 1

BillingSchedule(k) ==
    CASE k = 1 -> Hours(5)
      [] k = 2 -> Hours(10)
      [] k = 3 -> Hours(20)
      [] OTHER -> Hours(24)

\* C7: at the k-th of k billing failures in a row (each within the failure
\* window, counted from a fresh or success-reset entry), disabled_until - now
\* is 5 h, 10 h, 20 h for k = 1, 2, 3 and 24 h for k >= 4.
C7_BillingBackoffExact ==
    (last.op = "MarkFailure" /\ last.reason = FailoverBilling
        /\ streak[last.provider] >= 1) =>
        entries[last.provider].DisabledUntil - now
            = BillingSchedule(streak[last.provider])

C7_Witness ==
    /\ last.op = "MarkFailure"
    /\ last.reason = FailoverBilling
    /\ streak[last.provider] = 4
    /\ entries[last.provider].DisabledUntil - now = Hours(24)

StandardSchedule(n) ==
    CASE n = 1 -> Minutes(1)
      [] n = 2 -> Minutes(5)
      [] n = 3 -> Minutes(25)
      [] OTHER -> Minutes(60)

\* C8: for n >= 1 the standard backoff is 1, 5, 25 minutes for n = 1, 2, 3 and
\* 60 minutes from n = 4 on, the billing backoff 5, 10, 20 hours and 24 hours
\* from n = 4 on; both never decrease as n grows and never exceed their cap.
C8_BackoffSchedules ==
    (out.fn # "none" /\ arg[1] >= 1) =>
        /\ out.fn = "standard" =>
             /\ out.a = StandardSchedule(arg[1])
             /\ out.a <= Minutes(60)
        /\ out.fn = "billing" =>
             /\ out.a = BillingSchedule(arg[1])
             /\ out.a <= Hours(24)
        /\ arg[1] <= arg[2] => out.a <= out.b

\* The standard schedule over the cap: 25 minutes at 3, 60 minutes at 5.
C8_Witness ==
    /\ out.fn = "standard"
    /\ arg = <<3, 5>>
    /\ out.a = Minutes(25)
    /\ out.b = Minutes(60)

\* C9 as stated: MarkSuccess leaves every field of the entry, last_failure_at
\* included, at its zero value.
C9_AsStated ==
    (last.op = "MarkSuccess" /\ last.had) => entries[last.provider] = newEntry

\* C9, amended: MarkSuccess zeros error_count, per_reason_counts,
\* cooldown_end, disabled_until and disabled_reason and leaves
\* last_failure_at as it was; every query then answers as for a provider that
\* never recorded a failure.
C9_SuccessZeroesEntry ==
    (last.op = "MarkSuccess" /\ last.had) =>
        LET p == last.provider
        IN /\ entries[p] = [newEntry EXCEPT !.LastFailure = last.pre.LastFailure]
           /\ IsAvailable(p)
           /\ CooldownRemaining(p) = 0
           /\ ErrorCount(p) = 0
           /\ \A r \in AllReasons : FailureCount(p, r) = 0

C9_Witness ==
    /\ last.op = "MarkSuccess"
    /\ last.had
    /\ ~IsZero(last.pre.LastFailure)
    /\ last.pre.DisabledReason = FailoverBilling
    /\ ~IsZero(last.pre.CooldownEnd)
    /\ entries[last.provider].LastFailure = last.pre.LastFailure

-----------------------------------------------------------------------------
(* Claims about the fallback engine *)

\* Errors no rule of the classifier covers, and the cancellation sentinel.
UnclassifiableErrors ==
    { ErrCanceled, ErrWrapped(ErrCanceled),
      ErrText(<<"some", "completely", "random", "error">>) }

\* Errors the classifier's rules make format: HTTP 400, a format phrase, an
\* image-dimension phrase.
FormatErrors ==
    { ErrStatus("400"),
      ErrText(<<"string", "should", "match", "pattern">>),
      ErrText(<<"image", "dimensions", "exceed", "max">>) }

\* C10: when a candidate's adapter returns an unclassifiable or a format
\* error, the call ends there with that very error: the attempt is the last
\* one, no later candidate is tried, and the step that surfaces the error
\* calls neither MarkFailure nor MarkSuccess.
C10_SurfaceImmediately ==
    \A c \in Calls :
        /\ \A i \in 1..Len(attempts[c]) :
              attempts[c][i].err \in UnclassifiableErrors \cup FormatErrors =>
                  /\ i = Len(attempts[c])
                  /\ attempts[c][i].outcome = "surfaced"
                  /\ pc[c] = "done"
                  /\ result[c] = [kind |-> "error", err |-> attempts[c][i].err]
                  /\ idx[c] <= Len(cands[c])
                  /\ cands[c][idx[c]] = attempts[c][i].ref
        /\ result[c].kind = "error" => last = NoCall

\* A format error from the second candidate, after the first failed and was
\* recorded, with a third candidate left untried.
C10_Witness ==
    /\ pc["c1"] = "done"
    /\ result["c1"].kind = "error"
    /\ result["c1"].err \in FormatErrors
    /\ Len(cands["c1"]) = 3
    /\ Len(attempts["c1"]) = 2
    /\ attempts["c1"][1].outcome = "failed"
    /\ idx["c1"] = 2

\* The reasons after which the engine goes on to the next candidate.
RetriableReasons ==
    {FailoverAuth, FailoverRateLimit, "overloaded", FailoverTimeout, FailoverBilling}

ReasonOf(err, ref) ==
    LET fe == ClassifyError(err, ref.provider, ref.model)
    IN IF fe = Nil THEN "" ELSE fe.Reason

\* The counter a provider shows right after one more failure on entry pre.
CountAfterOne(pre, n) == IF windowExpired(pre) THEN 1 ELSE n + 1

\* C11: when a candidate's adapter fails with a retriable reason (auth,
\* rate_limit, overloaded, timeout, billing), the engine records that attempt
\* as failed with the classifier's reason, makes exactly one
\* MarkFailure(provider, reason) for the candidate's provider (both counters
\* rise by one) and stands at the next candidate with nothing returned.
C11_RetriableFailureContinues ==
    \A c \in Calls :
        LET n == Len(attempts[c])
        IN /\ \A i \in 1..n :
                 LET a == attempts[c][i]
                 IN a.err # NoErr /\ ReasonOf(a.err, a.ref) \in RetriableReasons =>
                        /\ a.outcome = "failed"
                        /\ a.reason = ReasonOf(a.err, a.ref)
           /\ (pc[c] # "idle" /\ last.op = "MarkFailure") =>
                 /\ n > 0
                 /\ attempts[c][n].outcome = "failed"
                 /\ last.provider = attempts[c][n].ref.provider
                 /\ last.reason = attempts[c][n].reason
                 /\ last.reason \in RetriableReasons
                 /\ ErrorCount(last.provider)
                        = CountAfterOne(last.pre, last.pre.ErrorCount)
                 /\ FailureCount(last.provider, last.reason)
                        = CountAfterOne(last.pre,
                                        MapGet(last.pre.FailureCounts, last.reason, 0))
                 /\ pc[c] = "next"
                 /\ idx[c] = n + 1
                 /\ result[c].kind = "none"

\* The adapter of the second candidate timed out after the first one's was
\* rate limited; a third candidate is next.
C11_Witness ==
    /\ last.op = "MarkFailure"
    /\ pc["c1"] = "next"
    /\ Len(attempts["c1"]) = 2
    /\ attempts["c1"][1].err = ErrStatus("429")
    /\ attempts["c1"][2].err = ErrDeadline
    /\ attempts["c1"][2].reason = FailoverTimeout
    /\ Len(cands["c1"]) = 3
    /\ idx["c1"] = 3

\* C12: the first candidate whose adapter succeeds ends the call.  The step
\* that returns the response is taken from an in-flight candidate, returns
\* that candidate, applies MarkSuccess to its provider only (its counters and
\* expiries are zero afterwards) and leaves the entry of every other
\* provider, failed earlier in the call or not, exactly as it was; once a
\* response is returned the call makes no further attempt.
C12_FirstSuccessEnds ==
    [][\A c \in Calls :
          /\ (result[c].kind # "response" /\ result'[c].kind = "response") =>
                LET p == Candidate(c).provider
                IN /\ pc[c] = "inflight"
                   /\ pc'[c] = "done"
                   /\ result'[c].ref = Candidate(c)
                   /\ idx'[c] = idx[c]
                   /\ attempts'[c] = Append(attempts[c], attempts'[c][Len(attempts'[c])])
                   /\ attempts'[c][Len(attempts'[c])].outcome = "ok"
                   /\ \A i \in 1..Len(attempts[c]) : attempts[c][i].outcome # "ok"
                   /\ last'.op = "MarkSuccess"
                   /\ last'.provider = p
                   /\ DOMAIN entries' = DOMAIN entries
                   /\ \A q \in DOMAIN entries \ {p} : entries'[q] = entries[q]
                   /\ p \in DOMAIN entries =>
                          /\ entries'[p].ErrorCount = 0
                          /\ entries'[p].FailureCounts = EmptyMap
                          /\ IsZero(entries'[p].CooldownEnd)
                          /\ IsZero(entries'[p].DisabledUntil)
          /\ result[c].kind = "response" =>
                /\ pc'[c] = "done"
                /\ result'[c] = result[c]
                /\ attempts'[c] = attempts[c]
                /\ idx'[c] = idx[c]
      ]_vars

\* The second candidate succeeded after the first one's provider failed: the
\* first provider is still cooling down, a third candidate was never tried.
C12_Witness ==
    /\ result["c1"].kind = "response"
    /\ Len(cands["c1"]) = 3
    /\ idx["c1"] = 2
    /\ attempts["c1"][1].outcome = "failed"
    /\ attempts["c1"][1].ref.provider # result["c1"].ref.provider
    /\ ErrorCount(attempts["c1"][1].ref.provider) = 1
    /\ ~IsAvailable(attempts["c1"][1].ref.provider)
    /\ last.op = "MarkSuccess"
    /\ last.had

\* C13: the engine never invokes the adapter of a candidate whose provider
\* the tracker reports as cooling down or disabled at the moment it is
\* consulted.  Such a candidate is skipped: the skip is recorded for that
\* candidate with the cooldown remaining, the engine moves to the next
\* candidate, and the tracker's entries are left as they were.
C13_UnavailableSkipped ==
    [][\A c \in Calls :
          LET n == Len(attempts[c])
              stepped == pc'[c] # pc[c] \/ idx'[c] # idx[c]
              atCandidate == pc[c] = "next" /\ idx[c] <= Len(cands[c])
          IN /\ (pc[c] # "inflight" /\ pc'[c] = "inflight") =>
                   /\ atCandidate
                   /\ CooldownRemaining(Candidate(c).provider) = 0
                   /\ cands'[c][idx'[c]] = Candidate(c)
             /\ (atCandidate /\ stepped
                   /\ CooldownRemaining(Candidate(c).provider) > 0) =>
                   /\ pc'[c] = "next"
                   /\ idx'[c] = idx[c] + 1
                   /\ Len(attempts'[c]) = n + 1
                   /\ attempts'[c][n + 1].outcome = "skipped"
                   /\ attempts'[c][n + 1].ref = Candidate(c)
                   /\ attempts'[c][n + 1].remaining
                          = CooldownRemaining(Candidate(c).provider)
                   /\ entries' = entries
                   /\ last' = NoCall
             /\ (Len(attempts'[c]) = n + 1
                   /\ attempts'[c][n + 1].outcome = "skipped") =>
                   /\ atCandidate
                   /\ CooldownRemaining(Candidate(c).provider) > 0
      ]_vars

\* A candidate of a disabled provider was skipped and the adapter of the
\* next candidate, of another provider, is running.
C13_Witness ==
    /\ pc["c1"] = "inflight"
    /\ idx["c1"] = 2
    /\ Len(attempts["c1"]) = 1
    /\ attempts["c1"][1].outcome = "skipped"
    /\ attempts["c1"][1].remaining > 0
    /\ entries[attempts["c1"][1].ref.provider].DisabledReason = FailoverBilling
    /\ IsAvailable(cands["c1"][2].provider)

\* The canonical key of a reference: normalize(provider) "/" lower(model).
CanonicalKey(r) == <<NormalizeProvider(r.provider), LowerWord(r.model)>>

FirstIndex(input, k) ==
    CHOOSE i \in 1..Len(input) :
        /\ CanonicalKey(input[i]) = k
        /\ \A j \in 1..(i - 1) : CanonicalKey(input[j]) # k

\* out holds, for every canonical key of input, its first occurrence, in the
\* order of the first occurrences, and nothing else.
IsFirstOccurrences(input, output) ==
    /\ { CanonicalKey(output[j]) : j \in 1..Len(output) }
          = { CanonicalKey(input[i]) : i \in 1..Len(input) }
    /\ \A j \in 1..Len(output) :
          LET i == FirstIndex(input, CanonicalKey(output[j]))
          IN /\ output[j].model = input[i].model
             /\ output[j].provider = NormalizeProvider(input[i].provider)
    /\ \A j, k \in 1..Len(output) :
          j < k => FirstIndex(input, CanonicalKey(output[j]))
                      < FirstIndex(input, CanonicalKey(output[k]))

\* C14: engine idempotence.  Whatever primary and fallbacks a call is given,
\* duplicates by canonical model key included (an alias of the provider, another
\* letter case of the model), its candidates are the first occurrences of
\* the keys in their order, and the call attempts the candidates in that
\* order, each canonical key at most once.
C14_EachKeyOnce ==
    /\ [](\A c \in Calls :
            /\ Len(attempts[c]) <= Len(cands[c])
            /\ \A i \in 1..Len(attempts[c]) : attempts[c][i].ref = cands[c][i]
            /\ \A i, j \in 1..Len(attempts[c]) :
                  i # j => CanonicalKey(attempts[c][i].ref)
                              # CanonicalKey(attempts[c][j].ref))
    /\ [][\A c \in Calls :
            (pc[c] = "idle" /\ pc'[c] # "idle") =>
                \A primary \in Refs, fallbacks \in SeqsUpTo(Refs, MaxFallbacks) :
                    StartCall(c, primary, fallbacks) =>
                        /\ IsFirstOccurrences(<<primary>> \o fallbacks, cands'[c])
                        /\ dropped'[c] = 1 + Len(fallbacks) - Len(cands'[c])
      ]_vars

\* A call given the same key twice, first under an alias and in capitals,
\* and one more key: two candidates, both attempted, one reference dropped.
C14_Witness ==
    /\ pc["c1"] = "done"
    /\ dropped["c1"] >= 1
    /\ Len(cands["c1"]) = 2
    /\ cands["c1"][1] = [provider |-> "openai", model |-> "GPT-4"]
    /\ Len(attempts["c1"]) = 2
    /\ attempts["c1"][2].ref.provider = "anthropic"

\* C15: a candidate whose provider has no registered adapter does not fail
\* the call.  It is never invoked; unless it is skipped as unavailable, it is
\* recorded as an auth failure, MarkFailure(provider, auth) is applied once,
\* and the engine stands at the next candidate with nothing returned.
C15_MissingAdapterIsAuth ==
    \A c \in Calls :
        LET n == Len(attempts[c])
        IN /\ pc[c] = "inflight" => Candidate(c).provider \in registry
           /\ \A i \in 1..n :
                 LET a == attempts[c][i]
                 IN /\ a.ref.provider \notin registry =>
                          /\ a.outcome \in {"skipped", "failed"}
                          /\ a.err = NoErr
                          /\ a.outcome = "failed" => a.reason = FailoverAuth
                    /\ (a.outcome = "failed" /\ a.err = NoErr) =>
                          a.ref.provider \notin registry
           /\ (pc[c] # "idle" /\ last.op = "MarkFailure" /\ n > 0
                 /\ attempts[c][n].err = NoErr) =>
                 /\ last.provider = attempts[c][n].ref.provider
                 /\ last.reason = FailoverAuth
                 /\ ErrorCount(last.provider)
                        = CountAfterOne(last.pre, last.pre.ErrorCount)
                 /\ FailureCount(last.provider, FailoverAuth)
                        = CountAfterOne(last.pre,
                                        MapGet(last.pre.FailureCounts, FailoverAuth, 0))
                 /\ pc[c] = "next"
                 /\ idx[c] = n + 1
                 /\ result[c].kind = "none"

\* The first candidate's provider had no adapter; the call went on and the
\* second candidate answered.
C15_Witness ==
    /\ result["c1"].kind = "response"
    /\ Len(attempts["c1"]) = 2
    /\ attempts["c1"][1].ref.provider \notin registry
    /\ attempts["c1"][1].outcome = "failed"
    /\ attempts["c1"][1].reason = FailoverAuth
    /\ FailureCount(attempts["c1"][1].ref.provider, FailoverAuth) = 1
    /\ ~IsAvailable(attempts["c1"][1].ref.provider)

\* The errors by which a user cancellation reaches the engine.
CancellationErrors == { ErrCanceled, ErrWrapped(ErrCanceled) }

\* C16: a call that has ended returned exactly one of: a response, a
\* cancellation error, a format error, an unclassifiable error, or the
\* compound error.  The compound error is returned exactly when every
\* candidate was skipped or failed with a retriable reason, and it lists
\* every candidate, in order, with its reason and its remaining cooldown.
C16_CallOutcomes ==
    \A c \in Calls :
        LET n == Len(attempts[c])
            allPassedOver ==
                /\ n = Len(cands[c])
                /\ \A i \in 1..n :
                      \/ attempts[c][i].outcome = "skipped"
                      \/ /\ attempts[c][i].outcome = "failed"
                         /\ attempts[c][i].reason \in RetriableReasons
        IN /\ (pc[c] = "done") <=> (result[c].kind # "none")
           /\ result[c].kind \in {"none", "response", "error", "exhausted"}
           /\ result[c].kind = "response" =>
                 /\ n > 0
                 /\ attempts[c][n].outcome = "ok"
                 /\ result[c].ref = attempts[c][n].ref
           /\ result[c].kind = "error" =>
                 /\ n > 0
                 /\ attempts[c][n].outcome = "surfaced"
                 /\ result[c].err = attempts[c][n].err
                 /\ result[c].err \in CancellationErrors \cup FormatErrors
                                        \cup UnclassifiableErrors
           /\ (result[c].kind = "exhausted") <=> (pc[c] = "done" /\ allPassedOver)
           /\ result[c].kind = "exhausted" =>
                 /\ Len(result[c].attempts) = Len(cands[c])
                 /\ \A i \in 1..Len(cands[c]) :
                       LET a == result[c].attempts[i]
                       IN /\ a.ref = cands[c][i]
                          /\ a = attempts[c][i]
                          /\ a.outcome = "skipped" => a.remaining > 0
                          /\ a.outcome = "failed" => a.reason \in RetriableReasons
                          /\ a.remaining >= 0

\* Three candidates: one skipped as cooling down, one without an adapter,
\* one whose adapter timed out; the call returned the compound error.
C16_Witness ==
    /\ result["c1"].kind = "exhausted"
    /\ Len(result["c1"].attempts) = 3
    /\ \E i, j, k \in 1..3 :
          /\ result["c1"].attempts[i].outcome = "skipped"
          /\ result["c1"].attempts[j].outcome = "failed"
          /\ result["c1"].attempts[j].err = NoErr
          /\ result["c1"].attempts[k].outcome = "failed"
          /\ result["c1"].attempts[k].reason = FailoverTimeout

\* C17: when the adapter in flight returns the user's cancellation (the
\* sentinel itself, or the sentinel wrapped by the HTTP adapter), the
\* classifier returns nothing for it and the call ends there with that
\* error: the step is no MarkFailure and no MarkSuccess, the entries stay as
\* they were when the adapter was running, and no later candidate is tried.
C17_CancellationShortCircuits ==
    [][\A c \in Calls :
          LET n == Len(attempts[c])
              cancelled == /\ Len(attempts'[c]) = n + 1
                           /\ attempts'[c][n + 1].err \in CancellationErrors
          IN /\ \A e \in CancellationErrors, r \in Refs :
                   ClassifyError(e, NormalizeProvider(r.provider), r.model) = Nil
             /\ cancelled =>
                   /\ pc[c] = "inflight"
                   /\ attempts'[c][n + 1].ref = Candidate(c)
                   /\ attempts'[c][n + 1].outcome = "surfaced"
                   /\ pc'[c] = "done"
                   /\ result'[c] = [kind |-> "error", err |-> attempts'[c][n + 1].err]
                   /\ entries' = entries
                   /\ last' = NoCall
                   /\ idx'[c] = idx[c]
             /\ (n > 0 /\ attempts[c][n].err \in CancellationErrors) =>
                   /\ pc'[c] = "done"
                   /\ attempts'[c] = attempts[c]
                   /\ result'[c] = result[c]
                   /\ idx'[c] = idx[c]
      ]_vars

\* The second candidate's adapter was cancelled after the first one failed:
\* the call returned the cancellation, the cancelled provider has no entry,
\* the third candidate was not tried.
C17_Witness ==
    /\ result["c1"] = [kind |-> "error", err |-> ErrCanceled]
    /\ Len(cands["c1"]) = 3
    /\ idx["c1"] = 2
    /\ Len(attempts["c1"]) = 2
    /\ attempts["c1"][1].outcome = "failed"
    /\ ~HasEntry(cands["c1"][2].provider)
    /\ cands["c1"][3].provider = cands["c1"][2].provider
    /\ last = NoCall

\* The attempts of a call in which an adapter was invoked.
Invocations(c) ==
    { i \in 1..Len(attempts[c]) :
        \/ attempts[c][i].outcome \in {"ok", "surfaced"}
        \/ attempts[c][i].outcome = "failed" /\ attempts[c][i].err # NoErr }

\* C18: every call terminates, provided each adapter call returns.  A call
\* that has started reaches its end; its position in the candidate list
\* never goes back and moves one candidate at a time; each candidate gets at
\* most one attempt, hence at most one adapter invocation; and whenever the
\* engine stands between two adapter calls it can take its next step at
\* once, without the clock moving.
C18_CallTerminates ==
    /\ \A c \in Calls : (pc[c] # "idle") ~> (pc[c] = "done")
    /\ [](\A c \in Calls :
            /\ Cardinality(Invocations(c)) <= Len(cands[c])
            /\ Len(attempts[c]) <= Len(cands[c])
            /\ \A i \in 1..Len(attempts[c]) : attempts[c][i].ref = cands[c][i]
            /\ pc[c] = "inflight" => Len(attempts[c]) = idx[c] - 1
            /\ pc[c] = "next" => /\ Len(attempts[c]) = idx[c] - 1
                                 /\ ENABLED <<EngineStep(c)>>_vars)
    /\ [][\A c \in Calls :
            pc[c] # "idle" =>
                /\ idx'[c] \in {idx[c], idx[c] + 1}
                /\ cands'[c] = cands[c]
                /\ Len(attempts'[c]) \in {Len(attempts[c]), Len(attempts[c]) + 1}
                /\ \A i \in 1..Len(attempts[c]) : attempts'[c][i] = attempts[c][i]
      ]_vars

\* A call over three candidates that ended after invoking each of them once.
C18_Witness ==
    /\ pc["c1"] = "done"
    /\ Len(cands["c1"]) = 3
    /\ Cardinality(Invocations("c1")) = 3
    /\ now > StartTime

-----------------------------------------------------------------------------
(* Claims about concurrent use *)

WriterInside(t) ==
    th[t].pc \in {"mf_now", "mf_get", "mf_window", "mf_reset", "mf_count",
                  "mf_reason", "mf_last", "mf_cool", "mf_disabled",
                  "ms_get", "ms_count", "ms_reasons", "ms_cool", "ms_until",
                  "ms_why", "unlock"}

ReaderInside(t) ==
    th[t].pc \in {"ia_get", "ia_now", "ia_disabled", "ia_cool",
                  "cr_get", "cr_now", "cr_disabled", "cr_cool",
                  "ec_get", "fc_get", "runlock"}

\* C19: under any interleaving of concurrent tracker calls on one provider
\* each call takes effect atomically.  A writer is alone inside the tracker;
\* a reader is inside only with other readers and then sees the entries as
\* the calls so far, taken one after the other in the order they got the
\* mutex, leave them; a writer about to return has left exactly what its
\* call makes of the entries it found; a reader about to return holds
\* exactly what its method answers at the instant it read the clock.
C19_CallsAtomic ==
    /\ \A t \in Threads :
          WriterInside(t) =>
              /\ mu.writer = t
              /\ mu.readers = {}
              /\ \A u \in Threads \ {t} : ~WriterInside(u) /\ ~ReaderInside(u)
    /\ \A t \in Threads :
          ReaderInside(t) =>
              /\ t \in mu.readers
              /\ mu.writer = NoThread
              /\ entries = lin
    /\ (\A t \in Threads : ~WriterInside(t)) => entries = lin
    /\ \A t \in Threads :
          th[t].pc = "unlock" => entries = th[t].want /\ entries = lin
    /\ \A t \in Threads :
          th[t].pc = "runlock" => th[t].ret = th[t].want

\* A MarkFailure in the middle of its update, its second failure counted in
\* the total but not yet under its reason, while an ErrorCount call of
\* another goroutine waits for the mutex.
C19_Witness ==
    \E t, u \in Threads :
        /\ th[t].pc = "mf_reason"
        /\ th[u].pc = "rlock"
        /\ th[u].op = "ErrorCount"
        /\ entries[Shared].ErrorCount = 2
        /\ SumOver(entries[Shared].FailureCounts, DOMAIN entries[Shared].FailureCounts) = 1
        /\ entries # lin

\* The attempts of all calls that ended as a failure of provider p, and the
\* ones that ended as a success of p.
FailedAttempts(p) ==
    { <<c, i>> \in Calls \X (1..(MaxConcurrentFallbacks + 1)) :
        /\ i <= Len(attempts[c])
        /\ attempts[c][i].ref.provider = p
        /\ attempts[c][i].outcome = "failed" }

Succeeded(p) ==
    \E c \in Calls : \E i \in 1..Len(attempts[c]) :
        attempts[c][i].ref.provider = p /\ attempts[c][i].outcome = "ok"

\* C20: across two concurrent engine calls on a fresh tracker every failure
\* of a provider is counted, none lost or merged: as long as no call has
\* succeeded on the provider, its error count is the number of failed attempts
\* of both calls on it; and right after a failure is recorded its cooldown
\* (or, for billing, its disable) runs from that instant for the backoff of
\* the count reached.
C20_BothFailuresCounted ==
    /\ \A p \in Providers :
          ~Succeeded(p) => ErrorCount(p) = Cardinality(FailedAttempts(p))
    /\ last.op = "MarkFailure" =>
          LET e == entries[last.provider]
          IN IF last.reason = FailoverBilling
             THEN e.DisabledUntil
                    = now + calculateBillingCooldown(
                                FailureCount(last.provider, FailoverBilling))
             ELSE e.CooldownEnd = now + calculateStandardCooldown(e.ErrorCount)

\* Both calls invoked the same provider while it was available (the clock has
\* not reached the end of the first cooldown, so the second invocation began
\* before the first failure was recorded) and both failed: the count is 2 and
\* the cooldown is the five minutes of a second failure.
C20_Witness ==
    /\ Len(attempts["c1"]) >= 1
    /\ Len(attempts["c2"]) >= 1
    /\ attempts["c1"][1].ref.provider = "openai"
    /\ attempts["c2"][1].ref.provider = "openai"
    /\ attempts["c1"][1].outcome = "failed"
    /\ attempts["c2"][1].outcome = "failed"
    /\ attempts["c1"][1].err = ErrStatus("429")
    /\ attempts["c2"][1].err = ErrDeadline
    /\ now < StartTime + Seconds(60)
    /\ last.op = "MarkFailure"
    /\ last.pre.ErrorCount = 1
    /\ ErrorCount("openai") = 2
    /\ entries["openai"].CooldownEnd = now + Minutes(5)

-----------------------------------------------------------------------------
(* Claims about the classifier *)

\* C21: for every provider and model, ClassifyError of a nil error and of the
\* user-cancellation sentinel returns nothing, and ClassifyError of the
\* deadline-exceeded sentinel returns a FailoverError whose reason is timeout.
C21_Sentinels ==
    out.fn = "ClassifyError" =>
        /\ arg.err = NoErr => out.val = Nil
        /\ arg.err = ErrCanceled => out.val = Nil
        /\ arg.err = ErrDeadline =>
               /\ out.val # Nil
               /\ out.val.Reason = FailoverTimeout
               /\ out.val.Provider = arg.to.provider
               /\ out.val.Model = arg.to.model

C21_Witness ==
    /\ out.fn = "ClassifyError"
    /\ arg.err = ErrDeadline
    /\ arg.to.provider = "anthropic"
    /\ out.val # Nil
    /\ out.val.Reason = FailoverTimeout

\* The reason the table of codes gives to each code word it knows.
ReasonOfCode ==
    [w \in StatusWords \ {"418"} |->
        CASE w \in {"401", "403"} -> FailoverAuth
          [] w = "402" -> FailoverBilling
          [] w = "408" -> FailoverTimeout
          [] w = "429" -> FailoverRateLimit
          [] w = "400" -> FailoverFormat
          [] OTHER -> FailoverTimeout]

\* The places of "status: <code>" in a lower-cased message, and of any lead of
\* the status pattern.
StatusColonAt(m) ==
    { i \in 1..(Len(m) - 1) : m[i] = "status:" /\ m[i + 1] \in DOMAIN ReasonOfCode }

StatusLeadAt(m) == { i \in 1..Len(m) : m[i] \in {"status", "status:"} }

\* C22: an error message of the form "status: <code>" that matches no image
\* pattern is classified by the code alone, whatever else the message says:
\* 401 and 403 give auth, 402 billing, 408 timeout, 429 rate_limit, 400
\* format, 500, 502, 503, 521..524 and 529 timeout; the code is stored as the
\* FailoverError's status.
C22_StatusCodeDecides ==
    (out.fn = "ClassifyError" /\ arg.err.kind = "other") =>
        LET m == ToLower(arg.err.msg)
        IN \A i \in StatusColonAt(m) :
              (/\ StatusLeadAt(m) = {i}
               /\ ~IsImageDimensionError(m)
               /\ ~IsImageSizeError(m)) =>
                  /\ out.val # Nil
                  /\ out.val.Reason = ReasonOfCode[m[i + 1]]
                  /\ out.val.Status = parseDigits(m[i + 1])

C22_Witness ==
    /\ out.fn = "ClassifyError"
    /\ arg.err.msg = <<"API", "request", "failed:", "Status:", "529", "Body:", "overloaded">>
    /\ out.val # Nil
    /\ out.val.Reason = FailoverTimeout
    /\ out.val.Status = 529

\* The places of a status line "HTTP/1.1 <code>" in a message as written.
StatusLineAt(w) ==
    { i \in 1..(Len(w) - 1) : w[i] = "HTTP/1.1" /\ w[i + 1] \in DOMAIN ReasonOfCode }

\* C23: ClassifyError extracts the status code from either message shape: an
\* error whose message contains "status: <3 digits>" and an error whose message
\* contains a status line such as "HTTP/1.1 502 Bad Gateway" are both
\* classified by the code (502 gives timeout).
C23_EitherShapeClassified ==
    (out.fn = "ClassifyError" /\ arg.err.kind = "other") =>
        LET w == arg.err.msg
            m == ToLower(w)
            plain == ~IsImageDimensionError(m) /\ ~IsImageSizeError(m)
        IN /\ \A i \in StatusColonAt(m) :
                 (StatusLeadAt(m) = {i} /\ plain) =>
                     /\ out.val # Nil
                     /\ out.val.Reason = ReasonOfCode[m[i + 1]]
           /\ \A i \in StatusLineAt(w) :
                 (StatusLeadAt(m) = {} /\ StatusLineAt(w) = {i} /\ plain) =>
                     /\ out.val # Nil
                     /\ out.val.Reason = ReasonOfCode[w[i + 1]]

\* The status line of C23 as ClassifyError treats it: the message is
\* lower-cased before the case-sensitive pattern is tried, no code is found and
\* no bucket knows the words, so nothing is returned.
C23_StatusLineUnclassified ==
    /\ out.fn = "ClassifyError"
    /\ arg.err.msg = <<"HTTP/1.1", "502", "Bad", "Gateway">>
    /\ out.val = Nil

\* The message buckets in their order, each with the reason it reports.
BucketOrder ==
    << [patterns |-> rateLimitPatterns, reason |-> FailoverRateLimit],
       [patterns |-> overloadedPatterns, reason |-> FailoverRateLimit],
       [patterns |-> billingPatterns, reason |-> FailoverBilling],
       [patterns |-> timeoutPatterns, reason |-> FailoverTimeout],
       [patterns |-> authPatterns, reason |-> FailoverAuth],
       [patterns |-> formatPatterns, reason |-> FailoverFormat] >>

BucketsHit(m) ==
    { k \in DOMAIN BucketOrder : \E p \in BucketOrder[k].patterns : Matches(m, p) }

FirstBucket(m) == CHOOSE k \in BucketsHit(m) : \A j \in BucketsHit(m) : k <= j

\* C30: ClassifyError applies its rules in a fixed order, the first match
\* winning: the cancellation and deadline sentinels, then the image patterns
\* (format), then an extracted and mapped status code, then the message
\* buckets rate-limit, overloaded (reported as rate_limit), billing, timeout,
\* auth, format; a message matching none returns nothing.
C30_PriorityOrder ==
    out.fn = "ClassifyError" =>
        LET m == ToLower(arg.err.msg)
            status == extractHTTPStatus(m)
        IN IF arg.err.kind \in {"nil", "canceled"} THEN out.val = Nil
           ELSE IF arg.err.kind = "deadline"
           THEN out.val # Nil /\ out.val.Reason = FailoverTimeout
           ELSE IF IsImageDimensionError(m) \/ IsImageSizeError(m)
           THEN out.val # Nil /\ out.val.Reason = FailoverFormat /\ out.val.Status = 0
           ELSE IF status > 0 /\ classifyByStatus(status) # ""
           THEN /\ out.val # Nil
                /\ out.val.Reason = classifyByStatus(status)
                /\ out.val.Status = status
           ELSE IF BucketsHit(m) # {}
           THEN /\ out.val # Nil
                /\ out.val.Reason = BucketOrder[FirstBucket(m)].reason
                /\ out.val.Status = 0
           ELSE out.val = Nil

\* A message that matches an image pattern, carries a mapped code and a word
\* of the rate-limit bucket is a format error.
C30_Witness ==
    /\ out.fn = "ClassifyError"
    /\ arg.err.msg = <<"image", "exceeds", "5", "mb", "status:", "429", "rate_limit">>
    /\ out.val # Nil
    /\ out.val.Reason = FailoverFormat

-----------------------------------------------------------------------------
(* Claims about the model reference resolver *)

\* The ways of reading a text as p + "/" + m with both halves non-empty.
SplitsOf(raw) == { k \in 2..(Len(raw) - 1) : raw[k] = "/" }

ProviderHalf(raw, k) == SubSeq(raw, 1, k - 1)

ModelHalf(raw, k) == SubSeq(raw, k + 1, Len(raw))

HasSlash(s) == \E i \in 1..Len(s) : s[i] = "/"

\* C24 as stated: for every non-empty provider p and non-empty model m, and
\* any default provider, ParseModelRef(p + "/" + m, default) yields the ref
\* {normalize(p), lower(m)}.
C24_RoundTripLowerCased ==
    out.fn = "ParseModelRef" =>
        \A k \in SplitsOf(arg.raw) :
            out.val = ModelRefOf(NormalizeProviderOf(ProviderHalf(arg.raw, k)),
                                 ToLower(ModelHalf(arg.raw, k)))

\* C24, amended: for every provider p that holds no slash and is not blank,
\* every model m that is not blank, and any default provider,
\* ParseModelRef(p + "/" + m, default) yields the ref {normalize(p), trim(m)}:
\* the model half keeps its letter case.
C24_RoundTrip ==
    out.fn = "ParseModelRef" =>
        \A k \in SplitsOf(arg.raw) :
            LET p == ProviderHalf(arg.raw, k)
                m == ModelHalf(arg.raw, k)
            IN (~HasSlash(p) /\ TrimSpace(p) # <<>> /\ TrimSpace(m) # <<>>) =>
                  out.val = ModelRefOf(NormalizeProviderOf(p), TrimSpace(m))

C24_Witness ==
    /\ out.fn = "ParseModelRef"
    /\ arg.raw = <<"Claude", "/", "GPT-4">>
    /\ arg.defaultProvider = <<"openai">>
    /\ out.val = [Provider |-> <<"anthropic">>, Model |-> <<"GPT-4">>]

\* C25: ParseModelRef returns nothing for an empty or blank text and for a text
\* whose model part after the slash is empty; for a text without a slash it
\* returns the trimmed text as the model, with the normalized default provider;
\* the blanks around the separator are trimmed from both halves.
C25_EdgeCases ==
    out.fn = "ParseModelRef" =>
        LET r == TrimSpace(arg.raw)
            at == Index(r)
        IN /\ r = <<>> => out.val = Nil
           /\ (at > 0 /\ TrimSpace(ModelHalf(r, at)) = <<>>) => out.val = Nil
           /\ (r # <<>> /\ at = 0) =>
                  out.val = ModelRefOf(NormalizeProviderOf(arg.defaultProvider), r)
           /\ (at > 1 /\ TrimSpace(ModelHalf(r, at)) # <<>>) =>
                  /\ out.val # Nil
                  /\ out.val.Provider = NormalizeProviderOf(TrimSpace(ProviderHalf(r, at)))
                  /\ out.val.Model = TrimSpace(ModelHalf(r, at))

\* The text "/" has an empty model part after its slash, and is resolved to
\* the model "/" of the default provider.
C25_LoneSlashResolved ==
    /\ out.fn = "ParseModelRef"
    /\ arg.raw = <<"/">>
    /\ arg.defaultProvider = <<"openai">>
    /\ out.val = [Provider |-> <<"openai">>, Model |-> <<"/">>]

-----------------------------------------------------------------------------
(* Claims about the provider adapters *)

\* C26: every adapter returns an LLMResponse whose finish_reason is one of
\* stop, length, tool_calls, for every upstream response it accepts, an
\* OpenAI-compatible response with another or an empty finish_reason and an
\* Anthropic response with any stop_reason included.
C26_FinishReasonNormalized ==
    (out.fn \in {"parseResponse", "parseAnthropicResponse", "parseJSONLEvents"}
        /\ ~out.val.failed) =>
        out.val.FinishReason \in {"stop", "length", "tool_calls"}

\* The OpenAI-compatible adapter accepts a response whose first choice says
\* content_filter and returns it with that finish_reason.
C26_PassedThrough ==
    /\ out.fn = "parseResponse"
    /\ arg.valid
    /\ arg.choices = 1
    /\ arg.first.finish_reason = "content_filter"
    /\ ~out.val.failed
    /\ out.val.FinishReason = "content_filter"

-----------------------------------------------------------------------------
(* Claims about the MCP manager *)

\* The input of C27: MCP enabled, an enabled server whose env file path is
\* relative, and an empty workspace path.
RelativeEnvFileNoWorkspace ==
    /\ arg.Enabled
    /\ arg.workspacePath = ""
    /\ \E n \in DOMAIN arg.Servers :
          arg.Servers[n].Enabled /\ arg.Servers[n].EnvFile = ".env"

\* C27: LoadFromMCPConfig with MCP enabled, an enabled server whose env file
\* path is relative, and an empty workspace path returns an error reporting
\* that the workspace path is empty, and connects no server.
C27_EmptyWorkspaceRejected ==
    (out.fn = "LoadFromMCPConfig" /\ out.phase = "returned"
        /\ RelativeEnvFileNoWorkspace) =>
        /\ out.ret.kind = "error"
        /\ \E e \in out.ret.joined : e.cause = "workspace path is empty"
        /\ out.connected = {}

\* With that input LoadFromMCPConfig can return no error, the server with the
\* relative env file connected.
C27_ConnectedAnyway ==
    /\ out.fn = "LoadFromMCPConfig"
    /\ out.phase = "returned"
    /\ RelativeEnvFileNoWorkspace
    /\ out.ret.kind = "nil"
    /\ \E n \in out.connected : arg.Servers[n].EnvFile = ".env"

-----------------------------------------------------------------------------
(* Claims about SplitMessage *)

EndsWithFence(chunk) ==
    Len(chunk) >= 4 /\ SubSeq(chunk, Len(chunk) - 3, Len(chunk)) = <<"\n">> \o Tick3

\* C28: for every content and every positive maxLen, each chunk returned by
\* SplitMessage has length at most maxLen, the chunks that received an
\* injected closing code fence included.
C28_ChunksWithinMaxLen ==
    out.fn = "SplitMessage" =>
        \A i \in DOMAIN out.messages : Len(out.messages[i]) <= arg.maxLen

\* A returned split whose first chunk was closed with an injected fence.
C28_Witness ==
    /\ out.fn = "SplitMessage"
    /\ out.at = "returned"
    /\ Len(arg.content) > arg.maxLen
    /\ Len(out.messages) >= 2
    /\ EndsWithFence(out.messages[1])
    /\ ~EndsWithFence(Prefix(arg.content, Len(out.messages[1])))

-----------------------------------------------------------------------------
(* Claims about NormalizeAgentID *)

\* C29: for every input, NormalizeAgentID returns an id that matches
\* [a-z0-9][a-z0-9_-]{0,63}: its first character is a lower-case letter or a
\* digit, the others lower-case letters, digits, "_" or "-", and it has at
\* most 64 characters; "main" is returned when the input is empty or nothing
\* valid remains.
C29_ResultIsValidID ==
    out.fn = "NormalizeAgentID" =>
        /\ out.val # <<>>
        /\ Len(out.val) <= 64
        /\ out.val[1] \in {"a", "m", "i", "n", "1"}
        /\ \A i \in 2..Len(out.val) : out.val[i] \in {"a", "m", "i", "n", "1", "_", "-"}
        /\ TrimSpace(arg) = <<>> => out.val = <<"m", "a", "i", "n">>

\* An id that starts with an underscore is returned as it is.
C29_LeadingUnderscoreKept ==
    /\ out.fn = "NormalizeAgentID"
    /\ arg = <<"_", "a">>
    /\ out.val = <<"_", "a">>

-----------------------------------------------------------------------------
(* Further claims about the tracker *)

\* The failures of every reason an entry counted.
CountedFailures(entry) ==
    SumOver([r \in AllReasons |-> MapGet(entry.FailureCounts, r, 0)], AllReasons)

\* The last failure of the entry lies within the failure window of now.
WithinWindow(entry) ==
    IsZero(entry.LastFailure) \/ now - entry.LastFailure <= Hours(24)

\* C31: right after a MarkFailure(p, r) with r other than billing,
\* cooldown_end - now is the standard backoff of p's error count, and that
\* count is the failures of every reason within the window, billing included,
\* plus this one: a billing failure followed by a rate_limit failure gives a
\* cooldown of 5 minutes, not of 1.
C31_StandardCooldownCountsAll ==
    (last.op = "MarkFailure" /\ last.reason # FailoverBilling) =>
        LET p == last.provider
            n == IF WithinWindow(last.pre) THEN CountedFailures(last.pre) + 1 ELSE 1
        IN /\ ErrorCount(p) = n
           /\ entries[p].CooldownEnd - now = StandardSchedule(n)

\* A rate_limit failure right after one billing failure: 5 minutes.
C31_Witness ==
    /\ last.op = "MarkFailure"
    /\ last.reason = FailoverRateLimit
    /\ last.pre.ErrorCount = 1
    /\ MapGet(last.pre.FailureCounts, FailoverBilling, 0) = 1
    /\ WithinWindow(last.pre)
    /\ entries[last.provider].CooldownEnd - now = Minutes(5)

\* C32: backoff is monotonic under failures.  With a clock that never goes
\* back, no MarkFailure moves the provider's cooldown_end or disabled_until to
\* an earlier instant than it held before the call, the call that triggers
\* the failure-window reset included.
C32_BackoffMonotonic ==
    last.op = "MarkFailure" =>
        /\ entries[last.provider].CooldownEnd >= last.pre.CooldownEnd
        /\ entries[last.provider].DisabledUntil >= last.pre.DisabledUntil

\* The reset at its tightest: a disable of 24 hours set at the last failure,
\* and a billing failure one millisecond after the window, counted as the first.
C32_Witness ==
    /\ last.op = "MarkFailure"
    /\ last.reason = FailoverBilling
    /\ last.pre.DisabledUntil = last.pre.LastFailure + Hours(24)
    /\ now = last.pre.LastFailure + Hours(24) + 1
    /\ MapGet(last.pre.FailureCounts, FailoverBilling, 0) >= 4
    /\ FailureCount(last.provider, FailoverBilling) = 1
    /\ entries[last.provider].DisabledUntil = now + Hours(5)

-----------------------------------------------------------------------------
(* Further claims about the MCP manager *)

\* The servers of the configuration that are enabled.
EnabledServers == { n \in DOMAIN arg.Servers : arg.Servers[n].Enabled }

\* C34: LoadFromMCPConfig waits for the connection attempts of all enabled
\* servers and returns an error exactly when at least one server was enabled
\* and none of the enabled servers of this call connected; with at least one
\* connected it returns nil though others failed, and with MCP disabled or no
\* server configured it returns nil without connecting anything.
C34_ErrorIffNoneConnected ==
    (out.fn = "LoadFromMCPConfig" /\ out.phase = "returned") =>
        /\ out.ret.kind = "error" <=>
              (arg.Enabled /\ EnabledServers # {} /\ out.connected = {})
        /\ (~arg.Enabled \/ DOMAIN arg.Servers = {}) =>
              (out.ret.kind = "nil" /\ out.connected = {})

\* The manager held a server before the call, every enabled server of the
\* call failed to connect, and the call returned nil.
C34_NilThoughNoneConnected ==
    /\ out.fn = "LoadFromMCPConfig"
    /\ out.phase = "returned"
    /\ arg.Enabled
    /\ arg.held = {0}
    /\ EnabledServers # {}
    /\ out.connected = {}
    /\ Cardinality(out.errs) = Cardinality(EnabledServers)
    /\ out.ret.kind = "nil"

\* The calls on the manager that have returned.
ReturnedCalls(op) == { t \in Threads : th[t].pc = "idle" /\ th[t].op = op }

\* C33: the closed state of the manager is absorbing.  Once a Close has
\* returned the manager stays closed, every Close made later returns nil
\* without calling Close on any session, and every CallTool made later returns
\* the "manager is closed" error without calling any session; on a manager it
\* finds open, CallTool for a name that is not registered returns "not found".
C33_ClosedIsAbsorbing ==
    /\ out.closeReturned => out.closed
    /\ \A t \in ReturnedCalls("Close") :
          th[t].afterClose => (th[t].ret = "nil" /\ th[t].touched = {})
    /\ \A t \in ReturnedCalls("CallTool") :
          /\ th[t].afterClose => (th[t].ret = "manager is closed" /\ th[t].used = {})
          /\ (~th[t].seen.closed /\ th[t].name \notin th[t].seen.held) =>
                th[t].ret = "not found"

\* A server was connected and closed; a second Close and a CallTool made
\* after the first Close returned have both returned.
C33_Witness ==
    /\ out.stored # {}
    /\ \A i \in out.stored : out.sessions[i] = 1
    /\ \E t \in ReturnedCalls("Close") : th[t].afterClose /\ th[t].ret = "nil"
    /\ \E t \in ReturnedCalls("CallTool") :
          th[t].afterClose /\ th[t].ret = "manager is closed"

\* C39: under any interleaving of ConnectServer, CallTool and Close on one
\* manager, once Close has returned the manager holds no server connection,
\* every session it ever stored has been closed, and no CallTool uses a
\* session after Close closed it.
C39_NothingOpenAfterClose ==
    out.closeReturned =>
        /\ DOMAIN out.servers = {}
        /\ \A i \in out.stored : out.sessions[i] > 0
        /\ out.misuse = {}

\* A CallTool that looked its connection up before Close ran has called the
\* session after Close closed it.
C39_SessionUsedAfterClose ==
    /\ out.closeReturned
    /\ out.misuse # {}
    /\ \E t \in ReturnedCalls("CallTool") :
          th[t].used \subseteq out.misuse /\ th[t].used # {} /\ ~th[t].seen.closed

\* C35: the frame of the tracker's writes.  A billing failure of p leaves p's
\* cooldown_end as it was; a failure of another reason leaves p's
\* disabled_until and disabled_reason as they were; and no MarkFailure or
\* MarkSuccess on p changes the entry of another provider, or whether that
\* provider is available.
C35_FrameOfWrites ==
    [][ last'.op \in {"MarkFailure", "MarkSuccess"} =>
          LET p == last'.provider
              held == MapGet(entries, p, newEntry)
          IN /\ (last'.op = "MarkFailure" /\ last'.reason = FailoverBilling) =>
                   entries'[p].CooldownEnd = held.CooldownEnd
             /\ (last'.op = "MarkFailure" /\ last'.reason # FailoverBilling) =>
                   /\ entries'[p].DisabledUntil = held.DisabledUntil
                   /\ entries'[p].DisabledReason = held.DisabledReason
             /\ \A q \in Providers \ {p} :
                   /\ (q \in DOMAIN entries') <=> (q \in DOMAIN entries)
                   /\ q \in DOMAIN entries => entries'[q] = entries[q]
                   /\ IsAvailable(q)' <=> IsAvailable(q)
      ]_vars

\* A billing failure of a provider whose standard cooldown runs, while the
\* other provider is cooling down.
C35_Witness ==
    /\ last.op = "MarkFailure"
    /\ last.reason = FailoverBilling
    /\ last.pre.CooldownEnd > now
    /\ entries[last.provider].CooldownEnd = last.pre.CooldownEnd
    /\ entries[last.provider].DisabledUntil > now
    /\ \E q \in Providers \ {last.provider} : ~IsAvailable(q)

\* C36: with a clock that never goes back, no provider is unavailable more
\* than 24 hours after its latest failure: in every reachable state
\* cooldown_end <= last_failure_at + 1 h and disabled_until <= last_failure_at
\* + 24 h.  Hence a MarkFailure that resets the failure window finds the
\* provider available, and CooldownRemaining never exceeds 24 hours.
C36_UnavailableAtMost24h ==
    /\ \A p \in DOMAIN entries :
          /\ entries[p].CooldownEnd <= entries[p].LastFailure + Hours(1)
          /\ entries[p].DisabledUntil <= entries[p].LastFailure + Hours(24)
    /\ \A p \in Providers : CooldownRemaining(p) <= Hours(24)
    /\ (last.op = "MarkFailure" /\ ~IsZero(last.pre.LastFailure)
           /\ now - last.pre.LastFailure > Hours(24)) =>
          (last.pre.CooldownEnd <= now /\ last.pre.DisabledUntil <= now)

\* Right after the failure that brings both expiries to their caps: an hour
\* of cooldown and 24 hours of disable.
C36_Witness ==
    /\ last.op = "MarkFailure"
    /\ last.reason = FailoverBilling
    /\ entries[last.provider].CooldownEnd = entries[last.provider].LastFailure + Hours(1)
    /\ entries[last.provider].DisabledUntil = entries[last.provider].LastFailure + Hours(24)
    /\ CooldownRemaining(last.provider) = Hours(24)

-----------------------------------------------------------------------------
(* Further claims about the fallback engine *)

\* The attempts of the call so far that ended in a recorded failure of the
\* provider.
FailuresOf(c, provider) ==
    { i \in 1..Len(attempts[c]) :
        attempts[c][i].outcome = "failed" /\ attempts[c][i].ref.provider = provider }

\* C37: within one engine call with no concurrent call, once a candidate of
\* provider p has failed with a retriable reason or for want of an adapter,
\* every later candidate of p is skipped as unavailable and its adapter is
\* not invoked, so that a provider is marked failed at most once per call.
C37_FailedProviderSkipped ==
    /\ \A p \in Providers : Cardinality(FailuresOf("c1", p)) <= 1
    /\ \A i \in 1..Len(attempts["c1"]) :
          \A j \in FailuresOf("c1", attempts["c1"][i].ref.provider) :
              j < i => attempts["c1"][i].outcome = "skipped"
    /\ pc["c1"] = "inflight" => FailuresOf("c1", Candidate("c1").provider) = {}

\* The adapter of a second model of the provider is running, the cooldown of
\* the provider's failure earlier in the call having run out meanwhile.
C37_InvokedAfterCooldown ==
    /\ pc["c1"] = "inflight"
    /\ \E i \in FailuresOf("c1", Candidate("c1").provider) :
          /\ attempts["c1"][i].ref.model # Candidate("c1").model
          /\ attempts["c1"][i].reason = FailoverRateLimit
    /\ now >= entries[Candidate("c1").provider].CooldownEnd

\* The entry holds a cooldown or a billing disable that has not expired.
Cooling(entry) == Before(now, entry.CooldownEnd) \/ Before(now, entry.DisabledUntil)

-----------------------------------------------------------------------------
(* Further claims about SplitMessage *)

\* C40: SplitMessage terminates for every content and every positive maxLen:
\* each round of its loop leaves a remaining content strictly shorter than it
\* found, the rounds that put a code-block header back in front of the
\* remainder and the rounds with maxLen smaller than the header or the
\* code-block buffer included.
C40_EachRoundShortens ==
    [][(out.fn = "SplitMessage" /\ Len(out'.messages) > Len(out.messages)) =>
          Len(out'.content) < Len(out.content)]_vars

\* After two rounds the content left is longer than the content given: each
\* round put the header and a newline in front of a remainder it had not cut.
C40_RemainderGrows ==
    /\ out.fn = "SplitMessage"
    /\ out.at = "loop"
    /\ Len(out.messages) >= 2
    /\ Len(out.content) > Len(arg.content)
    /\ Len(out.content) > arg.maxLen
    /\ \A i \in 1..Len(out.messages) : out.messages[i] = <<"\n">> \o Tick3

====
